---------------------------- MODULE Spec2Model ----------------------------
(***************************************************************************)
(* A model of the Jira/Confluence MCP tools of this repository:            *)
(*   - extract_text_from_adf            (src/tools/utils.py)               *)
(*   - find_sprint_ID_by_name,                                             *)
(*     get_sprint_issues_by_name,                                          *)
(*     get_epic_issues                  (src/tools/jira_tools.py)          *)
(*                                                                         *)
(* Python values are tagged records, strings are sequences of one-         *)
(* character strings, and a raised exception is an outcome of its own.     *)
(***************************************************************************)
EXTENDS Integers, Sequences, FiniteSets, TLC

VARIABLES
    adf_pc,        \* "ready" | "returned" | "raised" | "again"
    adf_content,   \* the argument of extract_text_from_adf
    adf_result,    \* the outcome of the call on adf_content
    adf_second     \* the outcome of the call on the first call's return value

adfVars == <<adf_pc, adf_content, adf_result, adf_second>>

\* One call of find_sprint_ID_by_name or of get_sprint_issues_by_name
VARIABLES
    sp_tool,        \* "find" | "get": the tool called
    sp_pc,          \* "idle" | "await_boards" | "await_sprints" | "await_issues"
                    \*   | "returned" | "raised"
    sprint_name,    \* the argument sprint_name
    board_id,       \* the argument board_id (find), else the id of the board scanned
    sp_max_results, \* the argument max_results (get)
    boards_data,    \* boards_data.get('values', [])
    board_idx,      \* the position of `board` in boards_data
    state_idx,      \* the position of `state` in ["active", "closed", "future"]
    sprints_data,   \* the sprint list last received
    sprint,         \* the sprint that matched, or Absent
    sp_in_flight,   \* the requests sent and not yet answered
    sp_requests,    \* every request sent, in order
    sp_seen,        \* per sprint list received: its board, its state and the
                    \*   position of the first sprint named as requested
    sp_result       \* what the call returned or raised

sprintVars ==
    <<sp_tool, sp_pc, sprint_name, board_id, sp_max_results, boards_data, board_idx,
      state_idx, sprints_data, sprint, sp_in_flight, sp_requests, sp_seen, sp_result>>

\* One call of get_epic_issues
VARIABLES
    ep_pc,          \* "idle" | "await_epic" | "await_search" | "await_fallback"
                    \*   | "returned" | "raised"
    epic_key,       \* the argument epic_key
    ep_max_results, \* the argument max_results
    start_at,       \* the argument start_at
    epic_data,      \* epic_response.json()
    ep_issues_data, \* issues_data: search_response.json() of the search that succeeded
    ep_in_flight,   \* the requests sent and not yet answered
    ep_requests,    \* every request sent, in order
    ep_answers,     \* how each answered request ended: "ok" or the failure
    ep_result       \* what the call returned or raised

epicVars ==
    <<ep_pc, epic_key, ep_max_results, start_at, epic_data, ep_issues_data, ep_in_flight,
      ep_requests, ep_answers, ep_result>>

\* One call of get_jira_issue
VARIABLES
    ji_pc,               \* "idle" | "await_issue" | "await_subtask" | "returned" | "raised"
    ji_issue_key,        \* the argument issue_key
    ji_issue_data,       \* issue_data: response.json()
    ji_sub_idx,          \* the position in subtasks of the reference being expanded
    ji_subtasks_payload, \* subtasks_payload
    ji_in_flight,        \* the requests sent and not yet answered
    ji_requests,         \* every request sent, in order
    ji_answers,          \* how each answered request ended: "ok" or the failure
    ji_result            \* what the call returned or raised

jiraVars ==
    <<ji_pc, ji_issue_key, ji_issue_data, ji_sub_idx, ji_subtasks_payload, ji_in_flight,
      ji_requests, ji_answers, ji_result>>

\* One call of get_issues_by_assignee
VARIABLES
    as_pc,               \* "idle" | "await_search" | "await_issue" | "await_subtask"
                         \*   | "returned" | "raised"
    assignee_email,      \* the argument assignee_email
    as_max_results,      \* the argument max_results
    as_start_at,         \* the argument start_at
    as_data,             \* data: response.json() of the search
    as_issue_idx,        \* the position in data['issues'] of the issue being processed
    as_issue_data,       \* issue_data: issue_response.json()
    as_sub_idx,          \* the position in subtasks of the reference being expanded
    as_subtasks_payload, \* subtasks_payload of the issue being processed
    formatted_issues,    \* formatted_issues
    as_in_flight,        \* the requests sent and not yet answered
    as_requests,         \* every request sent, in order
    as_answers,          \* how each answered request ended: "ok", the failure, or
                         \*   "unusable" for an answer whose processing was given up
    as_result            \* what the call returned or raised

assigneeVars ==
    <<as_pc, assignee_email, as_max_results, as_start_at, as_data, as_issue_idx, as_issue_data,
      as_sub_idx, as_subtasks_payload, formatted_issues, as_in_flight, as_requests, as_answers,
      as_result>>

\* One call of get_jira_issue_confluence_content
VARIABLES
    cf_pc,            \* "idle" | "await_issue" | "await_links" | "await_page"
                      \*   | "returned" | "raised"
    cf_issue_key,     \* the argument issue_key
    cf_issue_data,    \* issue_data: response.json()
    links_data,       \* links_data: links_response.json()
    cf_link_idx,      \* the position in links_data of the link being processed
    confluence_pages, \* confluence_pages
    cf_in_flight,     \* the requests sent and not yet answered
    cf_requests,      \* every request sent, in order
    cf_answers,       \* how each answered request ended: "ok" or the failure
    cf_result         \* what the call returned or raised

confluenceVars ==
    <<cf_pc, cf_issue_key, cf_issue_data, links_data, cf_link_idx, confluence_pages,
      cf_in_flight, cf_requests, cf_answers, cf_result>>

\* Two calls of get_issues_by_assignee that run at the same time
VARIABLES
    pr_calls,      \* per call: its arguments, its locals and what it returned
    pr_lists,      \* per place where a call keeps them: formatted_issues and
                   \*   subtasks_payload
    pr_responses   \* per call: the answers it received, in order

pairVars == <<pr_calls, pr_lists, pr_responses>>

vars == <<adfVars, sprintVars, epicVars, jiraVars, assigneeVars, confluenceVars, pairVars>>

\* What a step of one tool leaves alone
besidesAdf == <<sprintVars, epicVars, jiraVars, assigneeVars, confluenceVars, pairVars>>
besidesSprint == <<adfVars, epicVars, jiraVars, assigneeVars, confluenceVars, pairVars>>
besidesEpic == <<adfVars, sprintVars, jiraVars, assigneeVars, confluenceVars, pairVars>>
besidesJira == <<adfVars, sprintVars, epicVars, assigneeVars, confluenceVars, pairVars>>
besidesAssignee == <<adfVars, sprintVars, epicVars, jiraVars, confluenceVars, pairVars>>
besidesConfluence == <<adfVars, sprintVars, epicVars, jiraVars, assigneeVars, pairVars>>
besidesPair == <<adfVars, sprintVars, epicVars, jiraVars, assigneeVars, confluenceVars>>

-----------------------------------------------------------------------------
(* Bounds of the enumerated inputs.                                        *)

MaxTextLen == 2
MaxNodes == 3
MaxItems == 2
MaxBoards == 2
MaxSprints == 2
MaxSubtasks == 2
MaxIssues == 2
MaxLinks == 2

-----------------------------------------------------------------------------
(* Python values.                                                          *)

Absent == [k |-> "absent"]
PyNone == [k |-> "None"]
PyStr(s) == [k |-> "str", s |-> s]
PyInt(n) == [k |-> "int", n |-> n]
PyList(v) == [k |-> "list", v |-> v]
\* A dict with the keys type, text and content; a key that is not present
\* holds NoType (type) or Absent (text, content).
NoType == "(absent)"
PyDict(t, x, c) == [k |-> "dict", type |-> t, text |-> x, content |-> c]

\* bool(v), as `not adf_content` evaluates it
Truthy(v) ==
    CASE v.k = "None" -> FALSE
      [] v.k = "str"  -> v.s # <<>>
      [] v.k = "int"  -> v.n # 0
      [] v.k = "list" -> v.v # <<>>
      [] v.k = "dict" -> ~(v.type = NoType /\ v.text = Absent /\ v.content = Absent)
      [] OTHER        -> FALSE

\* The characters str.strip() removes, among those of the model's alphabet
WhitespaceChars == {" ", "\n", "\t"}

RECURSIVE py_lstrip(_)
py_lstrip(s) ==
    IF s # <<>> /\ Head(s) \in WhitespaceChars THEN py_lstrip(Tail(s)) ELSE s

RECURSIVE py_rstrip(_)
py_rstrip(s) ==
    IF s # <<>> /\ s[Len(s)] \in WhitespaceChars
    THEN py_rstrip(SubSeq(s, 1, Len(s) - 1))
    ELSE s

\* str.strip()
py_strip(s) == py_rstrip(py_lstrip(s))

\* ''.join(parts): TypeError when a part is not a str
RECURSIVE py_join(_)
py_join(parts) ==
    IF parts = <<>> THEN [raised |-> FALSE, s |-> <<>>]
    ELSE IF Head(parts).k # "str" THEN [raised |-> TRUE, s |-> <<>>]
    ELSE LET rest == py_join(Tail(parts)) IN
         IF rest.raised THEN rest
         ELSE [raised |-> FALSE, s |-> Head(parts).s \o rest.s]

\* The keys of a dict, in insertion order, as iterating over it yields them
DictKeys(d) ==
    (IF d.type # NoType THEN <<PyStr(<<"t", "y", "p", "e">>)>> ELSE <<>>)
    \o (IF d.text # Absent THEN <<PyStr(<<"t", "e", "x", "t">>)>> ELSE <<>>)
    \o (IF d.content # Absent
        THEN <<PyStr(<<"c", "o", "n", "t", "e", "n", "t">>)>> ELSE <<>>)

\* `for item in content_list`: the items, or TypeError for a non-iterable
PyIter(v) ==
    CASE v.k = "list" -> [raised |-> FALSE, items |-> v.v]
      [] v.k = "str"  -> [raised |-> FALSE,
                          items |-> [i \in 1..Len(v.s) |-> PyStr(<<v.s[i]>>)]]
      [] v.k = "dict" -> [raised |-> FALSE, items |-> DictKeys(v)]
      [] OTHER        -> [raised |-> TRUE, items |-> <<>>]

-----------------------------------------------------------------------------
(* extract_text_from_adf                                                   *)

\* (changed) a listItem appends no newline
ParagraphTypesNoListItem == {"paragraph", "tableCell", "tableHeader"}
\* ['paragraph', 'listItem', 'tableCell', 'tableHeader']
ParagraphTypes == {"paragraph", "listItem", "tableCell", "tableHeader"}

\* ['bulletList', 'orderedList']
ListTypes == {"bulletList", "orderedList"}

Raised(text_parts) == [raised |-> TRUE, text_parts |-> text_parts]
Went(text_parts) == [raised |-> FALSE, text_parts |-> text_parts]

\* (changed) the text of a node is read under another key
TextOfValueKey(item) == PyStr(<<>>)
\* item.get('text', '')
TextOf(item) == IF item.text = Absent THEN PyStr(<<>>) ELSE item.text

\* (changed) a hardBreak appends nothing
HardBreakNothing(text_parts) == text_parts
\* text_parts.append('\n') of the hardBreak branch
HardBreakAppend(text_parts) == Append(text_parts, PyStr(<<"\n">>))

\* (changed) a node of another type is never entered
UnknownSkipped(item) == FALSE
\* the last branch: elif 'content' in item
UnknownHasContent(item) == item.content # Absent

RECURSIVE extract_from_content(_, _)
RECURSIVE extract_items(_, _, _)

\* One pass of the loop body on `item`, which came out of the iteration
visit_item(item, text_parts) ==
    IF item.k # "dict" THEN Raised(text_parts)      \* item.get: AttributeError
    ELSE IF item.type = "text" THEN Went(Append(text_parts, TextOf(item)))
    ELSE IF item.type \in ParagraphTypes THEN
        LET r == IF item.content # Absent
                 THEN extract_from_content(item.content, text_parts)
                 ELSE Went(text_parts)
        IN  IF r.raised THEN r ELSE Went(Append(r.text_parts, PyStr(<<"\n">>)))
    ELSE IF item.type \in ListTypes THEN
        IF item.content # Absent
        THEN extract_from_content(item.content, text_parts)
        ELSE Went(text_parts)
    ELSE IF item.type = "hardBreak" THEN Went(HardBreakAppend(text_parts))
    ELSE IF UnknownHasContent(item)
        THEN extract_from_content(item.content, text_parts)
    ELSE Went(text_parts)

\* The loop `for item in content_list`, from the i-th item on
extract_items(items, i, text_parts) ==
    IF i > Len(items) THEN Went(text_parts)
    ELSE LET r == visit_item(items[i], text_parts) IN
         IF r.raised THEN r ELSE extract_items(items, i + 1, r.text_parts)

extract_from_content(content_list, text_parts) ==
    LET it == PyIter(content_list) IN
    IF it.raised THEN Raised(text_parts)
    ELSE extract_items(it.items, 1, text_parts)

Returns(v) == [raised |-> FALSE, value |-> v]
Raises == [raised |-> TRUE, value |-> PyNone]

\* (changed) a plain string is stripped like extracted text
PlainStringStripped(adf) == Returns(PyStr(py_strip(adf.s)))
\* if isinstance(adf_content, str): return adf_content
PlainString(adf) == Returns(adf)

\* (changed) the root is visited like any node of a content sequence
RootAsItem(adf) == visit_item(adf, <<>>)
\* if 'content' in adf_content: extract_from_content(adf_content['content'])
RootContent(adf) ==
    IF adf.content # Absent
    THEN extract_from_content(adf.content, <<>>)
    ELSE Went(<<>>)

extract_text_from_adf(adf) ==
    IF ~Truthy(adf) THEN Returns(PyStr(<<>>))
    ELSE IF adf.k = "str" THEN PlainString(adf)
    ELSE IF adf.k # "dict" THEN Returns(PyStr(<<>>))
    ELSE LET r == RootContent(adf) IN
         IF r.raised THEN Raises
         ELSE LET j == py_join(r.text_parts) IN
              IF j.raised THEN Raises
              ELSE Returns(PyStr(py_strip(j.s)))

-----------------------------------------------------------------------------
(* The arguments extract_text_from_adf is called on.                       *)

Chars == {"a", " ", "\n"}

\* The strings of at most n characters
Texts(n) == UNION {[1..m -> Chars] : m \in 0..n}

NodeTypes ==
    ParagraphTypes \cup ListTypes \cup {"text", "hardBreak", "customBlock", NoType}

TextNode(t) == PyDict("text", PyStr(t), Absent)

\* The texts of the nodes of the enumerated trees
NodeTexts == {<<>>} \cup {<<c>> : c \in Chars}

\* Nodes without a content field: text nodes, with and without text, and
\* nodes of every other type
LeafNodes ==
    {TextNode(t) : t \in NodeTexts}
    \cup {PyDict(ty, Absent, Absent) : ty \in NodeTypes}

\* Nodes whose content field is the empty sequence
EmptyContentNodes == {PyDict(ty, Absent, PyList(<<>>)) : ty \in NodeTypes}

\* Documents holding a node with an empty content sequence: alone, between
\* two texts, and last in a node of each type
EmptyContentDocs ==
    {PyDict("doc", Absent, PyList(<<e>>)) : e \in EmptyContentNodes}
    \cup {PyDict("doc", Absent, PyList(<<TextNode(<<"a">>), e, TextNode(<<"a">>)>>)) :
            e \in EmptyContentNodes}
    \cup {PyDict("doc", Absent, PyList(<<PyDict(p[1], Absent, PyList(<<TextNode(<<"a">>), p[2]>>)),
                                         TextNode(<<"a">>)>>)) :
            p \in NodeTypes \X EmptyContentNodes}

RECURSIVE NodesOfSize(_)
RECURSIVE ForestOfSize(_)

\* The well-formed nodes of exactly n nodes in all
NodesOfSize(n) ==
    IF n = 1 THEN LeafNodes
    ELSE {PyDict(p[1], Absent, PyList(p[2])) : p \in NodeTypes \X ForestOfSize(n - 1)}

\* The sequences of well-formed nodes of exactly n nodes in all
ForestOfSize(n) ==
    IF n = 0 THEN {<<>>}
    ELSE UNION {{<<p[1]>> \o p[2] : p \in NodesOfSize(m) \X ForestOfSize(n - m)} : m \in 1..n}

RootTypes == {"doc", "paragraph"}

\* adf is a root over a sequence of well-formed nodes, of at most MaxNodes nodes
\* under a doc root and one fewer under a root of another type
IsTreeDoc(adf) ==
    \/ \E rt \in RootTypes \cup NodeTypes : adf = PyDict(rt, Absent, Absent)
    \/ \E rt \in RootTypes : adf = PyDict(rt, Absent, PyList(<<>>))
    \/ \E n \in 1..MaxNodes : \E m \in 1..n :
         \E nd \in NodesOfSize(m), rest \in ForestOfSize(n - m) :
           \E rt \in IF n = MaxNodes THEN {"doc"} ELSE RootTypes \cup {"customBlock"} :
             adf = PyDict(rt, Absent, PyList(<<nd>> \o rest))
    \/ \E a \in NodeTexts, b \in NodeTexts :
         adf = PyDict("paragraph", Absent,
                      PyList(<<TextNode(a), PyDict("hardBreak", Absent, Absent), TextNode(b)>>))

\* Text nodes at the top level, and as the one child of a root
TextDocs ==
    {TextNode(t) : t \in Texts(MaxTextLen)}
    \cup {PyDict(rt, Absent, PyList(<<TextNode(t)>>)) :
            rt \in RootTypes \cup {"customBlock"}, t \in Texts(MaxTextLen)}

\* The item texts of a list: not blank, no newline
ItemTexts == {t \in Texts(MaxTextLen) : py_strip(t) # <<>> /\ \A i \in 1..Len(t) : t[i] # "\n"}

ListItem(t) == PyDict("listItem", Absent, PyList(<<TextNode(t)>>))

ListNodes ==
    {PyDict(ty, Absent, PyList([i \in 1..Len(ts) |-> ListItem(ts[i])])) :
        ty \in ListTypes, ts \in UNION {[1..n -> ItemTexts] : n \in 1..MaxItems}}

\* A list as the root, and as the one child of a root
ListDocs == ListNodes \cup {PyDict("doc", Absent, PyList(<<l>>)) : l \in ListNodes}

Scalars ==
    {PyNone, PyInt(0), PyInt(1), PyList(<<>>), PyList(<<PyNone>>)}
    \cup {PyStr(t) : t \in Texts(MaxTextLen)}

\* What a content sequence holds when it is malformed
NotNodes == {PyNone, PyInt(1), PyStr(<<"a">>), PyList(<<>>)}

\* What a content field holds when it is not a sequence
NotSequences ==
    {PyNone, PyInt(0), PyInt(1), PyStr(<<>>), PyStr(<<"a">>), PyDict(NoType, Absent, Absent),
     TextNode(<<"a">>)}

MalformedDocs ==
    {PyDict("doc", Absent, PyList(<<x>>)) : x \in NotNodes}
    \cup {PyDict("doc", Absent, PyList(<<TextNode(<<"a">>), x>>)) : x \in NotNodes}
    \cup {PyDict("doc", Absent, PyList(<<x, TextNode(<<"a">>)>>)) : x \in NotNodes}
    \cup {PyDict("doc", Absent, c) : c \in NotSequences}
    \cup {PyDict("doc", Absent, PyList(<<PyDict(ty, Absent, c)>>)) :
            ty \in {"paragraph", "bulletList", "customBlock"}, c \in NotSequences \cup {PyList(<<PyNone>>)}}
    \cup {PyDict("doc", Absent, PyList(<<PyDict("text", x, Absent)>>)) : x \in {PyNone, PyInt(1)}}

\* The document create_jira_issue sends for `description`: a doc of one
\* paragraph of one text node (its "version": 1 is a key the extraction never
\* reads)
DescriptionDoc(description) ==
    PyDict("doc", Absent,
           PyList(<<PyDict("paragraph", Absent, PyList(<<TextNode(description)>>))>>))

\* The document add_jira_comment sends for `comment`
CommentDoc(comment) ==
    PyDict("doc", Absent,
           PyList(<<PyDict("paragraph", Absent, PyList(<<TextNode(comment)>>))>>))

\* The documents the two tools write, for every text
WrittenDocs ==
    {DescriptionDoc(d) : d \in Texts(MaxTextLen)} \cup {CommentDoc(d) : d \in Texts(MaxTextLen)}

AdfInputs ==
    Scalars \cup TextDocs \cup ListDocs \cup EmptyContentDocs \cup MalformedDocs \cup WrittenDocs

-----------------------------------------------------------------------------
(* The calls of extract_text_from_adf: one on the argument, and one on     *)
(* what that call returned.                                                *)

NoOutcome == [raised |-> FALSE, value |-> Absent]

InitAdf ==
    /\ adf_pc = "ready"
    /\ \/ adf_content \in AdfInputs
       \/ IsTreeDoc(adf_content)
    /\ adf_result = NoOutcome
    /\ adf_second = NoOutcome

ExtractText ==
    /\ adf_pc = "ready"
    /\ adf_result' = extract_text_from_adf(adf_content)
    /\ adf_pc' = IF adf_result'.raised THEN "raised" ELSE "returned"
    /\ UNCHANGED <<adf_content, adf_second>>
    /\ UNCHANGED besidesAdf

ExtractTextAgain ==
    /\ adf_pc = "returned"
    /\ adf_second' = extract_text_from_adf(adf_result.value)
    /\ adf_pc' = "again"
    /\ UNCHANGED <<adf_content, adf_result>>
    /\ UNCHANGED besidesAdf

NextAdf == ExtractText \/ ExtractTextAgain

-----------------------------------------------------------------------------
(* What the claims about extract_text_from_adf say, stated apart from the  *)
(* definitions above.                                                      *)

IsWhitespace(c) == c \in {" ", "\n", "\t", "\r"}

\* s without its leading and trailing whitespace
Stripped(s) ==
    LET inked == {i \in 1..Len(s) : ~IsWhitespace(s[i])} IN
    IF inked = {} THEN <<>>
    ELSE LET first == CHOOSE i \in inked : \A j \in inked : i <= j
             last == CHOOSE i \in inked : \A j \in inked : j <= i
         IN  [i \in 1..(last - first + 1) |-> s[first + i - 1]]

Called == adf_pc # "ready"
ReturnedText(s) == adf_result = [raised |-> FALSE, value |-> PyStr(s)]

IsTextNode(nd) ==
    nd.k = "dict" /\ nd.type = "text" /\ nd.text.k = "str" /\ nd.content = Absent

\* C1 as stated: extract_text_from_adf applied to a top-level node
\* {type: "text", text: X} with no content field returns X stripped.
C1_TopLevelTextReturnsText ==
    (Called /\ IsTextNode(adf_content)) => ReturnedText(Stripped(adf_content.text.s))

\* C1, amended: a top-level text node with no content field yields the empty
\* string (the root's own type and text are never read); a text node that is
\* the one child of a root's content yields its text, stripped.
C1_TextNodeUnderRoot ==
    /\ (Called /\ IsTextNode(adf_content)) => ReturnedText(<<>>)
    /\ (Called /\ adf_content.k = "dict" /\ adf_content.content.k = "list"
          /\ Len(adf_content.content.v) = 1 /\ IsTextNode(adf_content.content.v[1]))
         => ReturnedText(Stripped(adf_content.content.v[1].text.s))

C1_Witness ==
    /\ adf_pc = "returned"
    /\ adf_content = PyDict("doc", Absent, PyList(<<TextNode(<<" ", "a">>)>>))
    /\ ReturnedText(<<"a">>)

\* C2 as stated: extract_text_from_adf never raises: whatever the input, a
\* content sequence holding a non-mapping or a content field that is not a
\* sequence included, it returns a string.
C2_NeverRaises ==
    Called => (~adf_result.raised /\ adf_result.value.k = "str")

RECURSIVE WellFormedNodes(_)
\* A sequence of mappings, each with text that is a string (a text node) and
\* content that is absent or a well-formed sequence
WellFormedNodes(nds) ==
    \A i \in 1..Len(nds) :
        /\ nds[i].k = "dict"
        /\ nds[i].type = "text" => nds[i].text.k = "str"
        /\ nds[i].type # "text" => nds[i].text = Absent
        /\ nds[i].content # Absent =>
             (nds[i].content.k = "list" /\ WellFormedNodes(nds[i].content.v))

WellFormedDoc(adf) ==
    /\ adf.k = "dict"
    /\ adf.type # NoType
    /\ adf.content # Absent => (adf.content.k = "list" /\ WellFormedNodes(adf.content.v))

ChildrenOf(nd) == IF nd.content = Absent THEN <<>> ELSE nd.content.v

RECURSIVE F(_)
\* The text of a sequence of nodes, by the rules of C3
F(nds) ==
    IF nds = <<>> THEN <<>>
    ELSE LET nd == Head(nds)
             own == CASE nd.type = "text" -> nd.text.s
                      [] nd.type \in {"paragraph", "listItem", "tableCell", "tableHeader"}
                           -> F(ChildrenOf(nd)) \o <<"\n">>
                      [] nd.type \in {"bulletList", "orderedList"} -> F(ChildrenOf(nd))
                      [] nd.type = "hardBreak" -> <<"\n">>
                      [] OTHER -> F(ChildrenOf(nd))
         IN  own \o F(Tail(nds))

\* C3: on a well-formed document tree extract_text_from_adf returns
\* strip(F(children of the root)), stripped once at the end; a root paragraph
\* holding text "a", hardBreak, text "a" yields "a\na".
C3_ExtractIsStrippedF ==
    /\ (Called /\ WellFormedDoc(adf_content))
         => ReturnedText(Stripped(F(ChildrenOf(adf_content))))
    /\ (Called /\ adf_content = PyDict("paragraph", Absent,
            PyList(<<TextNode(<<"a">>), PyDict("hardBreak", Absent, Absent), TextNode(<<"a">>)>>)))
         => ReturnedText(<<"a", "\n", "a">>)

C3_Witness ==
    /\ adf_pc = "returned"
    /\ adf_content = PyDict("paragraph", Absent,
            PyList(<<TextNode(<<"a">>), PyDict("hardBreak", Absent, Absent), TextNode(<<"a">>)>>))
    /\ ReturnedText(<<"a", "\n", "a">>)

\* A bulletList or orderedList of n >= 1 listItems, each with exactly one text
\* child whose text has no newline and is not blank
IsItemList(nd) ==
    /\ nd.k = "dict" /\ nd.type \in {"bulletList", "orderedList"}
    /\ nd.content.k = "list" /\ Len(nd.content.v) >= 1
    /\ \A i \in 1..Len(nd.content.v) :
         LET it == nd.content.v[i] IN
         /\ it.k = "dict" /\ it.type = "listItem"
         /\ it.content.k = "list" /\ Len(it.content.v) = 1
         /\ IsTextNode(it.content.v[1])
         /\ Stripped(it.content.v[1].text.s) # <<>>
         /\ \A j \in 1..Len(it.content.v[1].text.s) : it.content.v[1].text.s[j] # "\n"

ItemTextsOf(nd) == [i \in 1..Len(nd.content.v) |-> nd.content.v[i].content.v[1].text.s]

RECURSIVE JoinedByNewline(_)
JoinedByNewline(ts) ==
    IF Len(ts) = 1 THEN ts[1] ELSE ts[1] \o <<"\n">> \o JoinedByNewline(Tail(ts))

\* The list the call is about: the root itself, or the one child of the root
ListOfCall ==
    IF IsItemList(adf_content) THEN adf_content
    ELSE IF adf_content.k = "dict" /\ adf_content.content.k = "list"
            /\ Len(adf_content.content.v) = 1 /\ IsItemList(adf_content.content.v[1])
         THEN adf_content.content.v[1]
    ELSE Absent

\* C4 as stated: for such a list, as the root or as a child of the root, the
\* call returns the n item texts separated by exactly one newline each.
C4_ItemTextsJoined ==
    (Called /\ ListOfCall # Absent) => ReturnedText(JoinedByNewline(ItemTextsOf(ListOfCall)))

\* C4, amended: the call returns the n item texts joined by exactly one newline
\* each, stripped of the leading whitespace of the first item and the trailing
\* whitespace of the last; the result holds n - 1 newlines, none leading, none
\* trailing, no two in a row, and is the same for the list as the root and as
\* a child of the root.
C4_ItemTextsJoinedStripped ==
    (Called /\ ListOfCall # Absent) =>
        LET ts == ItemTextsOf(ListOfCall)
            out == adf_result.value.s
        IN  /\ ReturnedText(Stripped(JoinedByNewline(ts)))
            /\ Cardinality({i \in 1..Len(out) : out[i] = "\n"}) = Len(ts) - 1
            /\ out[1] # "\n" /\ out[Len(out)] # "\n"
            /\ \A i \in 1..(Len(out) - 1) : ~(out[i] = "\n" /\ out[i + 1] = "\n")
            /\ adf_result = extract_text_from_adf(ListOfCall)
            /\ adf_result = extract_text_from_adf(PyDict("doc", Absent, PyList(<<ListOfCall>>)))

C4_Witness ==
    /\ adf_pc = "returned"
    /\ adf_content = PyDict("doc", Absent, PyList(<<PyDict("bulletList", Absent,
            PyList(<<ListItem(<<" ", "a">>), ListItem(<<"a", " ">>)>>))>>))
    /\ ReturnedText(<<"a", "\n", "a">>)

KnownTypes ==
    {"text", "paragraph", "listItem", "tableCell", "tableHeader", "bulletList",
     "orderedList", "hardBreak"}

IsUnrecognised(nd) == nd.type \notin KnownTypes \cup {NoType}

RECURSIVE Spliced(_)
\* nds with every node of unrecognised type replaced by its children (by
\* nothing when it has no content field), at every depth
Spliced(nds) ==
    IF nds = <<>> THEN <<>>
    ELSE LET nd == Head(nds) IN
         IF IsUnrecognised(nd) THEN Spliced(ChildrenOf(nd)) \o Spliced(Tail(nds))
         ELSE IF nd.content = Absent \/ nd.type = "text" THEN <<nd>> \o Spliced(Tail(nds))
         ELSE <<[nd EXCEPT !.content = PyList(Spliced(nd.content.v))]>> \o Spliced(Tail(nds))

RECURSIVE HasUnrecognised(_)
HasUnrecognised(nds) ==
    \E i \in 1..Len(nds) :
        IsUnrecognised(nds[i]) \/ (nds[i].type # "text" /\ HasUnrecognised(ChildrenOf(nds[i])))

\* C5: a node of unrecognised type with a content field has its children
\* traversed, at any depth, and one without a content field contributes nothing
\* and does not stop the traversal of its later siblings: the call returns what
\* it returns on the document with those nodes replaced by their children.
\* {type: "customBlock", content: [text Z]} yields Z (stripped).
C5_UnrecognisedTraversed ==
    /\ (Called /\ WellFormedDoc(adf_content) /\ adf_content.content # Absent)
         => /\ ~adf_result.raised
            /\ adf_result = extract_text_from_adf(
                   [adf_content EXCEPT !.content = PyList(Spliced(adf_content.content.v))])
    /\ \A z \in Texts(MaxTextLen) :
         (Called /\ adf_content = PyDict("customBlock", Absent, PyList(<<TextNode(z)>>)))
           => ReturnedText(Stripped(z))

C5_Witness ==
    /\ adf_pc = "returned"
    /\ adf_content = PyDict("doc", Absent, PyList(<<
           PyDict("customBlock", Absent, Absent),
           PyDict("customBlock", Absent, PyList(<<TextNode(<<"a">>)>>))>>))
    /\ ReturnedText(<<"a">>)

\* C6: a second call on what the first returned returns the same value, and a
\* plain string is returned as it is, surrounding whitespace included.
C6_IdempotentPassThrough ==
    /\ adf_pc = "again" => adf_second = adf_result
    /\ (Called /\ adf_content.k = "str") => adf_result = [raised |-> FALSE, value |-> adf_content]

C6_Witness ==
    /\ adf_pc = "again"
    /\ adf_content = PyStr(<<" ", "a">>)
    /\ adf_second = [raised |-> FALSE, value |-> PyStr(<<" ", "a">>)]

\* doc is a doc of one paragraph of one text node that holds a string
IsOneParagraphDoc(doc) ==
    /\ doc.k = "dict" /\ doc.type = "doc" /\ doc.text = Absent
    /\ doc.content.k = "list" /\ Len(doc.content.v) = 1
    /\ LET para == doc.content.v[1] IN
       /\ para.k = "dict" /\ para.type = "paragraph" /\ para.text = Absent
       /\ para.content.k = "list" /\ Len(para.content.v) = 1
       /\ IsTextNode(para.content.v[1])

\* The string such a doc was written from
WrittenText(doc) == doc.content.v[1].content.v[1].text.s

\* C30: extract_text_from_adf, called on the document create_jira_issue or
\* add_jira_comment builds from a string d, returns d without its leading and
\* trailing whitespace; for the empty d it returns the empty string.
C30_WriteReadRoundTrip ==
    (Called /\ IsOneParagraphDoc(adf_content)) =>
        /\ adf_content = DescriptionDoc(WrittenText(adf_content))
        /\ adf_content = CommentDoc(WrittenText(adf_content))
        /\ ReturnedText(Stripped(WrittenText(adf_content)))
        /\ WrittenText(adf_content) = <<>> => adf_result.value = PyStr(<<>>)

C30_Witness ==
    /\ Called
    /\ adf_content = DescriptionDoc(<<" ", "a">>)
    /\ adf_result = [raised |-> FALSE, value |-> PyStr(<<"a">>)]

-----------------------------------------------------------------------------
(* find_sprint_ID_by_name and get_sprint_issues_by_name.  A step runs from  *)
(* one await to the next: it takes the answer to the request in flight and  *)
(* either sends the next request or ends the call.                          *)

\* (changed) a fourth state is scanned
SprintStatesWithDraft == <<"active", "closed", "future", "draft">>
\* (changed) the states are scanned in another order
SprintStatesClosedFirst == <<"closed", "active", "future">>
\* (changed) the future sprints are not scanned
SprintStatesNoFuture == <<"active", "closed">>
\* for state in ["active", "closed", "future"]
SprintStates == <<"active", "closed", "future">>

\* str.lower() on the letters of the model's names
UpperCase ==
    <<"A", "B", "C", "D", "E", "F", "G", "H", "I", "J", "K", "L", "M",
      "N", "O", "P", "Q", "R", "S", "T", "U", "V", "W", "X", "Y", "Z">>
LowerCase ==
    <<"a", "b", "c", "d", "e", "f", "g", "h", "i", "j", "k", "l", "m",
      "n", "o", "p", "q", "r", "s", "t", "u", "v", "w", "x", "y", "z">>
py_lower_char(c) ==
    IF \E i \in 1..Len(UpperCase) : UpperCase[i] = c
    THEN LowerCase[CHOOSE i \in 1..Len(UpperCase) : UpperCase[i] = c]
    ELSE c

py_lower(s) == [i \in 1..Len(s) |-> py_lower_char(s[i])]

\* sprint.get('name', '')
NameOrEmpty(sp) == IF sp.name = Absent THEN <<>> ELSE sp.name.s

\* sprint.get('name', '').lower() == sprint_name.lower()
NameMatches(sp, name) == py_lower(NameOrEmpty(sp)) = py_lower(name)

\* (changed) a later match replaces an earlier one
last_match(values, name, i) ==
    LET hits == {j \in i..Len(values) : NameMatches(values[j], name)} IN
    IF hits = {} THEN 0 ELSE CHOOSE j \in hits : \A h \in hits : h <= j

RECURSIVE first_match(_, _, _)
\* for sprint in data.get('values', []): the position of the sprint the loop
\* returns on, from position i on; 0 when the loop runs out
first_match(values, name, i) ==
    IF i > Len(values) THEN 0
    ELSE IF NameMatches(values[i], name) THEN i
    ELSE first_match(values, name, i + 1)

\* The requests: the board list, a board's sprints of one state, a sprint's issues
BoardsRequest ==
    [kind |-> "boards", board |-> 0, state |-> "", sprint |-> 0, maxResults |-> 100]
SprintsRequest(b, st) ==
    [kind |-> "sprints", board |-> b, state |-> st, sprint |-> 0, maxResults |-> 0]
IssuesRequest(sid, mr) ==
    [kind |-> "issues", board |-> 0, state |-> "", sprint |-> sid, maxResults |-> mr]

\* What the upstream answers
BoardIds == 1..MaxBoards
Board(b) == [id |-> b, name |-> <<"B", b>>, type |-> "scrum"]
BoardLists ==
    {bl \in UNION {[1..n -> {Board(b) : b \in BoardIds}] : n \in 0..MaxBoards} :
        \A i, j \in 1..Len(bl) : i # j => bl[i] # bl[j]}

SprintNameValues == {PyStr(<<"S", "x">>), PyStr(<<"s", "y">>), Absent}
NameLists == UNION {[1..n -> SprintNameValues] : n \in 0..MaxSprints}
SprintId(b, st, i) == (b * 10 + (CHOOSE k \in 1..3 : <<"active", "closed", "future">>[k] = st)) * 10 + i
SprintList(b, st, names) ==
    [i \in 1..Len(names) |-> [id |-> SprintId(b, st, i), name |-> names[i], state |-> st]]

IssuePages ==
    {[total |-> Absent, issues |-> Absent],
     [total |-> PyInt(0), issues |-> PyList(<<>>)],
     [total |-> PyInt(2), issues |-> PyList(<<"I-1">>)]}

\* The failures of a request: raise_for_status (a status that is not 2xx),
\* and the transport
Failures == {"HTTPStatusError", "RequestError"}

\* The arguments
QueryNames == {<<"s", "X">>, <<"s", "y">>}
MaxResultsValues == {1, 100}

\* a equals b ignoring case (for sp_seen)
SameIgnoringCase(a, b) ==
    /\ Len(a) = Len(b)
    /\ \A i \in 1..Len(a) :
         \/ a[i] = b[i]
         \/ {a[i], b[i]} \in {{"s", "S"}, {"x", "X"}, {"y", "Y"}}

FirstNamed(values, name) ==
    LET hits == {i \in 1..Len(values) :
                   values[i].name # Absent /\ SameIgnoringCase(values[i].name.s, name)}
    IN  IF hits = {} THEN 0 ELSE CHOOSE i \in hits : \A h \in hits : i <= h

Seen(b, st, values) == [board |-> b, state |-> st, match |-> FirstNamed(values, sprint_name)]

\* The documents returned (before json.dumps)
FindFound(sp) ==
    [status |-> "returned",
     doc |-> [found |-> TRUE, sprint_id |-> sp.id, sprint_name |-> sp.name, state |-> sp.state]]
FindNotFound(name) ==
    [status |-> "returned",
     doc |-> [found |-> FALSE, message |-> <<"Sprint '">> \o name \o <<"' not found">>]]
GetFound(b, sp, issues_data) ==
    [status |-> "returned",
     doc |-> [board_info |-> [board_id |-> b.id, board_name |-> b.name, board_type |-> b.type],
              sprint_info |-> [sprint_id |-> sp.id, sprint_name |-> sp.name, state |-> sp.state],
              total_issues |-> IF issues_data.total = Absent THEN 0 ELSE issues_data.total.n,
              returned_issues |-> IF issues_data.issues = Absent THEN 0
                                  ELSE Len(issues_data.issues.v),
              issues |-> IF issues_data.issues = Absent THEN <<>> ELSE issues_data.issues.v]]
GetNotFound(name) ==
    [status |-> "returned",
     doc |-> [error |-> <<"Sprint '">> \o name \o <<"' not found in any board">>]]
NoResult == [status |-> "none"]

InitSprint ==
    /\ sp_tool \in {"find", "get"}
    /\ sp_pc = "idle"
    /\ sprint_name \in QueryNames
    /\ board_id \in IF sp_tool = "find" THEN BoardIds ELSE {0}
    /\ sp_max_results \in IF sp_tool = "get" THEN MaxResultsValues ELSE {0}
    /\ boards_data = <<>>
    /\ board_idx = 0
    /\ state_idx = 0
    /\ sprints_data = <<>>
    /\ sprint = Absent
    /\ sp_in_flight = {}
    /\ sp_requests = <<>>
    /\ sp_seen = <<>>
    /\ sp_result = NoResult

\* The call ends with `result`; the answered request is no longer in flight
SprintEnds(result) ==
    /\ sp_pc' = "returned"
    /\ sp_result' = result
    /\ sp_in_flight' = {}
    /\ UNCHANGED sp_requests

\* The call awaits the answer to `req`
SprintSends(req, pc) ==
    /\ sp_pc' = pc
    /\ sp_in_flight' = {req}
    /\ sp_requests' = Append(sp_requests, req)
    /\ UNCHANGED sp_result

\* find_sprint_ID_by_name: the first pass of the loop over the states
FindCall ==
    /\ sp_tool = "find" /\ sp_pc = "idle"
    /\ state_idx' = 1
    /\ SprintSends(SprintsRequest(board_id, SprintStates[1]), "await_sprints")
    /\ UNCHANGED <<sp_tool, sprint_name, board_id, sp_max_results, boards_data, board_idx,
                   sprints_data, sprint, sp_seen>>
    /\ UNCHANGED besidesSprint

\* find_sprint_ID_by_name: a sprint list arrives; the loop over its sprints
\* returns on the first match, else the next state is requested, else not found
FindSprintsResponse ==
    /\ sp_tool = "find" /\ sp_pc = "await_sprints"
    /\ \E names \in NameLists :
         LET data == SprintList(board_id, SprintStates[state_idx], names)
             m == first_match(data, sprint_name, 1)
         IN  /\ sprints_data' = data
             /\ sp_seen' = Append(sp_seen, Seen(board_id, SprintStates[state_idx], data))
             /\ IF m > 0
                  THEN /\ sprint' = data[m]
                       /\ SprintEnds(FindFound(data[m]))
                       /\ UNCHANGED state_idx
                ELSE IF state_idx < Len(SprintStates)
                  THEN /\ state_idx' = state_idx + 1
                       /\ SprintSends(SprintsRequest(board_id, SprintStates[state_idx + 1]),
                                      "await_sprints")
                       /\ UNCHANGED sprint
                ELSE /\ SprintEnds(FindNotFound(sprint_name))
                     /\ UNCHANGED <<state_idx, sprint>>
    /\ UNCHANGED <<sp_tool, sprint_name, board_id, sp_max_results, boards_data, board_idx>>
    /\ UNCHANGED besidesSprint

\* get_sprint_issues_by_name: the board list is requested
GetCall ==
    /\ sp_tool = "get" /\ sp_pc = "idle"
    /\ SprintSends(BoardsRequest, "await_boards")
    /\ UNCHANGED <<sp_tool, sprint_name, board_id, sp_max_results, boards_data, board_idx,
                   state_idx, sprints_data, sprint, sp_seen>>
    /\ UNCHANGED besidesSprint

\* get_sprint_issues_by_name: the board list arrives; the first state of the
\* first board is requested, or there is no board
GetBoardsResponse ==
    /\ sp_tool = "get" /\ sp_pc = "await_boards"
    /\ \E bl \in BoardLists :
         /\ boards_data' = bl
         /\ IF bl = <<>>
              THEN /\ SprintEnds(GetNotFound(sprint_name))
                   /\ UNCHANGED <<board_idx, state_idx, board_id>>
            ELSE /\ board_idx' = 1
                 /\ state_idx' = 1
                 /\ board_id' = bl[1].id
                 /\ SprintSends(SprintsRequest(bl[1].id, SprintStates[1]), "await_sprints")
    /\ UNCHANGED <<sp_tool, sprint_name, sp_max_results, sprints_data, sprint, sp_seen>>
    /\ UNCHANGED besidesSprint

\* get_sprint_issues_by_name: a sprint list arrives; on the first match the
\* sprint's issues are requested, else the next state, else the next board,
\* else not found
GetSprintsResponse ==
    /\ sp_tool = "get" /\ sp_pc = "await_sprints"
    /\ \E names \in NameLists :
         LET data == SprintList(board_id, SprintStates[state_idx], names)
             m == first_match(data, sprint_name, 1)
         IN  /\ sprints_data' = data
             /\ sp_seen' = Append(sp_seen, Seen(board_id, SprintStates[state_idx], data))
             /\ IF m > 0
                  THEN /\ sprint' = data[m]
                       /\ SprintSends(IssuesRequest(data[m].id, sp_max_results), "await_issues")
                       /\ UNCHANGED <<board_idx, state_idx, board_id>>
                ELSE IF state_idx < Len(SprintStates)
                  THEN /\ state_idx' = state_idx + 1
                       /\ SprintSends(SprintsRequest(board_id, SprintStates[state_idx + 1]),
                                      "await_sprints")
                       /\ UNCHANGED <<board_idx, board_id, sprint>>
                ELSE IF board_idx < Len(boards_data)
                  THEN /\ board_idx' = board_idx + 1
                       /\ state_idx' = 1
                       /\ board_id' = boards_data[board_idx + 1].id
                       /\ SprintSends(SprintsRequest(boards_data[board_idx + 1].id, SprintStates[1]),
                                      "await_sprints")
                       /\ UNCHANGED sprint
                ELSE /\ SprintEnds(GetNotFound(sprint_name))
                     /\ UNCHANGED <<board_idx, state_idx, board_id, sprint>>
    /\ UNCHANGED <<sp_tool, sprint_name, sp_max_results, boards_data>>
    /\ UNCHANGED besidesSprint

\* get_sprint_issues_by_name: the issues of the matched sprint arrive
GetIssuesResponse ==
    /\ sp_tool = "get" /\ sp_pc = "await_issues"
    /\ \E issues_data \in IssuePages :
         SprintEnds(GetFound(boards_data[board_idx], sprint, issues_data))
    /\ UNCHANGED <<sp_tool, sprint_name, board_id, sp_max_results, boards_data, board_idx,
                   state_idx, sprints_data, sprint, sp_seen>>
    /\ UNCHANGED besidesSprint

\* The request in flight fails: raise_for_status (or the transport) raises and
\* nothing catches it
\* (changed) a failed request ends the scan with the document of a sprint
\* that was not found
SprintRequestFailsAsNotFound ==
    /\ sp_pc \in {"await_boards", "await_sprints", "await_issues"}
    /\ \E e \in Failures :
         /\ sp_pc' = "returned"
         /\ sp_result' = GetNotFound(sprint_name)
    /\ sp_in_flight' = {}
    /\ UNCHANGED <<sp_tool, sprint_name, board_id, sp_max_results, boards_data, board_idx,
                   state_idx, sprints_data, sprint, sp_requests, sp_seen>>
    /\ UNCHANGED besidesSprint

SprintRequestFails ==
    /\ sp_pc \in {"await_boards", "await_sprints", "await_issues"}
    /\ \E e \in Failures :
         /\ sp_pc' = "raised"
         /\ sp_result' = [status |-> "raised", error |-> e]
    /\ sp_in_flight' = {}
    /\ UNCHANGED <<sp_tool, sprint_name, board_id, sp_max_results, boards_data, board_idx,
                   state_idx, sprints_data, sprint, sp_requests, sp_seen>>
    /\ UNCHANGED besidesSprint

NextSprint ==
    \/ FindCall
    \/ FindSprintsResponse
    \/ GetCall
    \/ GetBoardsResponse
    \/ GetSprintsResponse
    \/ GetIssuesResponse
    \/ SprintRequestFails

-----------------------------------------------------------------------------
(* get_epic_issues.                                                         *)

\* The requests: the epic itself, and a search by JQL
EpicRequest(key) ==
    [kind |-> "issue", key |-> key, jql |-> <<>>, maxResults |-> 0, startAt |-> 0]
\* (changed) every search asks for the first page
SearchRequestFromZero(jql, mr, sa) ==
    [kind |-> "search", key |-> <<>>, jql |-> jql, maxResults |-> mr, startAt |-> 0]
SearchRequest(jql, mr, sa) ==
    [kind |-> "search", key |-> <<>>, jql |-> jql, maxResults |-> mr, startAt |-> sa]

\* f'parent = {epic_key} OR "Epic Link" = {epic_key}'
KeyJql(key) == <<"parent = ">> \o key \o <<" OR \"Epic Link\" = ">> \o key

\* '{epic_id}' of an f-string: the id, or None for a missing one
FormatId(id) == IF id = Absent THEN <<"N", "o", "n", "e">> ELSE id.s

\* (changed) the fallback search asks for the key again
IdJqlFromKey(data, key) == <<"parent = ">> \o key
\* epic_id = epic_data.get('id'); jql_with_id = f'parent = {epic_id}'
IdJql(data, key) == <<"parent = ">> \o FormatId(data.id)

\* What the upstream answers for the epic: an id, and in fields an assignee
\* that is missing, null or an object with a displayName
EpicAssignees == {Absent, PyNone, [displayName |-> PyStr(<<"a">>)]}
EpicMetas ==
    {[id |-> id, fields |-> [summary |-> PyStr(<<"s">>), assignee |-> a]] :
        id \in {PyStr(<<"7">>), Absent}, a \in EpicAssignees}

EpicKeys == {<<"E", "-", "1">>}
StartAtValues == {0, 1}

\* except httpx.HTTPStatusError
CaughtBySearch == {"HTTPStatusError"}

\* (changed) the document tells how many requests were sent
EpicResultShowingPath(issues_data) ==
    [status |-> "returned", doc |-> [requests |-> Len(ep_requests)]]

\* The end of the call: the result document is built; .get on an assignee
\* that is null raises AttributeError
EpicResult(issues_data) ==
    IF epic_data.fields.assignee = PyNone
    THEN [status |-> "raised", error |-> "AttributeError"]
    ELSE [status |-> "returned",
          doc |-> [epic_info |->
                     [epic_key |-> epic_key,
                      epic_id |-> epic_data.id,
                      epic_summary |-> epic_data.fields.summary,
                      epic_assignee |-> IF epic_data.fields.assignee = Absent THEN PyStr(<<>>)
                                        ELSE epic_data.fields.assignee.displayName],
                   total_issues |-> IF issues_data.total = Absent THEN 0 ELSE issues_data.total.n,
                   returned_issues |-> IF issues_data.issues = Absent THEN 0
                                       ELSE Len(issues_data.issues.v),
                   start_at |-> start_at,
                   max_results |-> ep_max_results,
                   issues |-> IF issues_data.issues = Absent THEN <<>>
                              ELSE issues_data.issues.v]]

InitEpic ==
    /\ ep_pc = "idle"
    /\ epic_key \in EpicKeys
    /\ ep_max_results \in MaxResultsValues
    /\ start_at \in StartAtValues
    /\ epic_data = Absent
    /\ ep_issues_data = Absent
    /\ ep_in_flight = {}
    /\ ep_requests = <<>>
    /\ ep_answers = <<>>
    /\ ep_result = NoResult

EpicSends(req, pc) ==
    /\ ep_pc' = pc
    /\ ep_in_flight' = {req}
    /\ ep_requests' = Append(ep_requests, req)
    /\ UNCHANGED ep_result

EpicEnds(result) ==
    /\ ep_pc' = result.status
    /\ ep_result' = result
    /\ ep_in_flight' = {}
    /\ UNCHANGED ep_requests

\* The epic is requested
EpicCall ==
    /\ ep_pc = "idle"
    /\ EpicSends(EpicRequest(epic_key), "await_epic")
    /\ UNCHANGED <<epic_key, ep_max_results, start_at, epic_data, ep_issues_data, ep_answers>>
    /\ UNCHANGED besidesEpic

\* The epic arrives; the search by key is sent
EpicResponse ==
    /\ ep_pc = "await_epic"
    /\ \E meta \in EpicMetas : epic_data' = meta
    /\ ep_answers' = Append(ep_answers, "ok")
    /\ UNCHANGED ep_issues_data
    /\ EpicSends(SearchRequest(KeyJql(epic_key), ep_max_results, start_at), "await_search")
    /\ UNCHANGED <<epic_key, ep_max_results, start_at>>
    /\ UNCHANGED besidesEpic

\* The request for the epic fails, outside the try: the call fails
EpicRequestFails ==
    /\ ep_pc = "await_epic"
    /\ \E e \in Failures :
         /\ ep_answers' = Append(ep_answers, e)
         /\ EpicEnds([status |-> "raised", error |-> e])
    /\ UNCHANGED <<epic_key, ep_max_results, start_at, epic_data, ep_issues_data>>
    /\ UNCHANGED besidesEpic

\* (changed) a page without issues sends the search by id as well
KeySearchResponseRetryingEmpty ==
    /\ ep_pc = "await_search"
    /\ \E issues_data \in IssuePages :
         /\ ep_issues_data' = issues_data
         /\ IF issues_data.issues \in {Absent, PyList(<<>>)}
              THEN EpicSends(SearchRequest(IdJql(epic_data, epic_key), ep_max_results, start_at),
                             "await_fallback")
              ELSE EpicEnds(EpicResult(issues_data))
    /\ ep_answers' = Append(ep_answers, "ok")
    /\ UNCHANGED <<epic_key, ep_max_results, start_at, epic_data>>
    /\ UNCHANGED besidesEpic

\* The search by key succeeds: the result is built
KeySearchResponse ==
    /\ ep_pc = "await_search"
    /\ \E issues_data \in IssuePages :
         /\ ep_issues_data' = issues_data
         /\ EpicEnds(EpicResult(issues_data))
    /\ ep_answers' = Append(ep_answers, "ok")
    /\ UNCHANGED <<epic_key, ep_max_results, start_at, epic_data>>
    /\ UNCHANGED besidesEpic

\* The search by key fails with an error the except clause catches: the
\* search by id is sent
KeySearchCaught ==
    /\ ep_pc = "await_search"
    /\ \E e \in CaughtBySearch : ep_answers' = Append(ep_answers, e)
    /\ EpicSends(SearchRequest(IdJql(epic_data, epic_key), ep_max_results, start_at),
                 "await_fallback")
    /\ UNCHANGED <<epic_key, ep_max_results, start_at, epic_data, ep_issues_data>>
    /\ UNCHANGED besidesEpic

\* The search by key fails with an error the except clause does not catch
KeySearchFails ==
    /\ ep_pc = "await_search"
    /\ \E e \in Failures \ CaughtBySearch :
         /\ ep_answers' = Append(ep_answers, e)
         /\ EpicEnds([status |-> "raised", error |-> e])
    /\ UNCHANGED <<epic_key, ep_max_results, start_at, epic_data, ep_issues_data>>
    /\ UNCHANGED besidesEpic

\* The search by id succeeds: the result is built
FallbackResponse ==
    /\ ep_pc = "await_fallback"
    /\ \E issues_data \in IssuePages :
         /\ ep_issues_data' = issues_data
         /\ EpicEnds(EpicResult(issues_data))
    /\ ep_answers' = Append(ep_answers, "ok")
    /\ UNCHANGED <<epic_key, ep_max_results, start_at, epic_data>>
    /\ UNCHANGED besidesEpic

\* The search by id fails, inside the except clause: the call fails
FallbackFails ==
    /\ ep_pc = "await_fallback"
    /\ \E e \in Failures :
         /\ ep_answers' = Append(ep_answers, e)
         /\ EpicEnds([status |-> "raised", error |-> e])
    /\ UNCHANGED <<epic_key, ep_max_results, start_at, epic_data, ep_issues_data>>
    /\ UNCHANGED besidesEpic

NextEpic ==
    \/ EpicCall
    \/ EpicResponse
    \/ EpicRequestFails
    \/ KeySearchResponse
    \/ KeySearchCaught
    \/ KeySearchFails
    \/ FallbackResponse
    \/ FallbackFails

-----------------------------------------------------------------------------
(* get_jira_issue: the issue, then one request per subtask reference.       *)

IssueRequest(key) == [kind |-> "issue", key |-> key]

\* a.get(name, {}).get(inner, default) on the value v that a holds under
\* name: the default when the key is absent, AttributeError when it is null
NestedGet(v, inner, default) ==
    IF v = Absent THEN [raised |-> FALSE, value |-> default]
    ELSE IF v = PyNone THEN [raised |-> TRUE, value |-> PyNone]
    ELSE [raised |-> FALSE, value |-> v[inner]]

Unknown == PyStr(<<"U", "n", "k", "n", "o", "w", "n">>)
EmptyStr == PyStr(<<>>)

\* for c in comment_data: {"author": ..., "body": extract_text_from_adf(...)}
CommentEntry(c) ==
    LET a == NestedGet(c.author, "displayName", Unknown)
        b == extract_text_from_adf(IF c.body = Absent THEN EmptyStr ELSE c.body)
    IN  [raised |-> a.raised \/ b.raised, entry |-> [author |-> a.value, body |-> b.value]]

\* issue_data.get('fields', {}).get('comment', {}).get('comments', []) and the
\* loop over it
CommentsOf(container) ==
    LET cs == NestedGet(container, "comments", <<>>) IN
    IF cs.raised THEN [raised |-> TRUE, entries |-> <<>>]
    ELSE [raised |-> \E i \in 1..Len(cs.value) : CommentEntry(cs.value[i]).raised,
          entries |-> [i \in 1..Len(cs.value) |-> CommentEntry(cs.value[i]).entry]]

\* for h in changelog.get('histories', []): {"author": ..., "created": ...}
HistoryEntry(h) ==
    LET a == NestedGet(h.author, "displayName", Unknown)
    IN  [raised |-> a.raised, entry |-> [author |-> a.value, created |-> h.created]]

\* changelog = issue_data.get('changelog', {}); if changelog: ...
HistoryOf(changelog) ==
    IF changelog \in {Absent, PyNone} THEN [raised |-> FALSE, entries |-> <<>>]
    ELSE [raised |-> \E i \in 1..Len(changelog.histories) :
                        HistoryEntry(changelog.histories[i]).raised,
          entries |-> [i \in 1..Len(changelog.histories) |->
                         HistoryEntry(changelog.histories[i]).entry]]

\* description = extract_text_from_adf(fields.get('description', ''))
DescriptionOf(d) == extract_text_from_adf(IF d = Absent THEN EmptyStr ELSE d)

\* The statements between the issue's arrival and the loop over the subtasks:
\* description, issuetype, comments, history
IssueHead(data) ==
    LET d == DescriptionOf(data.fields.description)
        it == NestedGet(data.fields.issuetype, "name", EmptyStr)
        cm == CommentsOf(data.fields.comment)
        hs == HistoryOf(data.changelog)
    IN  [raised |-> d.raised \/ it.raised \/ cm.raised \/ hs.raised,
         description |-> d.value, issuetype |-> it.value,
         comments |-> cm.entries, history |-> hs.entries]

\* (changed) a failed subtask fetch leaves an entry that carries the error
SubtaskFailureRecorded(payload, key, e) ==
    [ends |-> FALSE, payload |-> Append(payload, [key |-> PyStr(key), error |-> e])]
\* sub_response.raise_for_status() raises inside the loop; nothing catches it
SubtaskFailure(payload, key, e) == [ends |-> TRUE, payload |-> payload]

\* The entry appended to subtasks_payload for sub_data
SubtaskEntry(sub_data) ==
    LET d == DescriptionOf(sub_data.fields.description)
        cm == CommentsOf(sub_data.fields.comment)
        hs == HistoryOf(sub_data.changelog)
        st == NestedGet(sub_data.fields.status, "name", EmptyStr)
    IN  [raised |-> d.raised \/ cm.raised \/ hs.raised \/ st.raised,
         entry |-> [key |-> sub_data.key, summary |-> sub_data.fields.summary,
                    description |-> d.value, status |-> st.value,
                    comments |-> cm.entries, history |-> hs.entries]]

\* The final payload; the status is read here, after the subtasks
JiraResult(data, payload) ==
    LET head == IssueHead(data)
        st == NestedGet(data.fields.status, "name", EmptyStr)
    IN  IF st.raised THEN [status |-> "raised", error |-> "AttributeError"]
        ELSE [status |-> "returned",
              doc |-> [key |-> data.key, issuetype |-> head.issuetype,
                       summary |-> data.fields.summary, description |-> head.description,
                       status |-> st.value, comments |-> head.comments,
                       history |-> head.history, subtasks |-> payload]]

\* (changed) a reference without a key is expanded too
HasKeyAlways(sub) == TRUE
\* sub_key = sub.get('key'); if not sub_key: continue
HasKey(sub) == sub.key # Absent /\ Truthy(sub.key)

\* f"{sub_key}" in the subtask's URL
KeyText(sub) == IF sub.key = Absent THEN <<"N", "o", "n", "e">> ELSE sub.key.s

\* The position of the first reference after position i that has a key, or 0
RECURSIVE next_subtask(_, _)
next_subtask(subtasks, i) ==
    IF i >= Len(subtasks) THEN 0
    ELSE IF HasKey(subtasks[i + 1]) THEN i + 1
    ELSE next_subtask(subtasks, i + 1)

\* What the upstream answers
IssueKeys == {<<"I", "1">>}
SubtaskKeys == {<<"S", "1">>, <<"S", "2">>}
Descriptions ==
    {Absent, PyNone,
     PyDict("doc", Absent,
            PyList(<<PyDict("paragraph", Absent, PyList(<<TextNode(<<"a">>)>>))>>))}
NamedObjects == {Absent, PyNone, [name |-> PyStr(<<"n">>)]}
Authors == {Absent, PyNone, [displayName |-> PyStr(<<"u">>)]}
CommentContainers ==
    {Absent, PyNone} \cup {[comments |-> <<[author |-> a, body |-> PyStr(<<"b">>)]>>] : a \in Authors}
Changelogs ==
    {Absent, PyNone}
    \cup {[histories |-> <<[author |-> a, created |-> PyStr(<<"t">>)]>>] : a \in Authors}
SubtaskRefs == {[key |-> k] : k \in {Absent} \cup {PyStr(s) : s \in SubtaskKeys}}
SubtaskLists == UNION {[1..n -> SubtaskRefs] : n \in 0..MaxSubtasks}
IssueDatas ==
    {[key |-> PyStr(<<"I", "1">>),
      fields |-> [summary |-> PyStr(<<"s">>), description |-> d, issuetype |-> it,
                  status |-> st, comment |-> cm, subtasks |-> subs],
      changelog |-> ch] :
        d \in Descriptions, it \in NamedObjects, st \in NamedObjects,
        cm \in CommentContainers, ch \in Changelogs, subs \in SubtaskLists}

\* A subtask as the upstream holds it; it lists a subtask of its own
SubDatas(key) ==
    {[key |-> PyStr(key),
      fields |-> [summary |-> PyStr(<<"s">>), description |-> Absent, status |-> st,
                  comment |-> Absent, subtasks |-> <<[key |-> PyStr(<<"G", "1">>)]>>],
      changelog |-> Absent] : st \in NamedObjects}

InitJira ==
    /\ ji_pc = "idle"
    /\ ji_issue_key \in IssueKeys
    /\ ji_issue_data = Absent
    /\ ji_sub_idx = 0
    /\ ji_subtasks_payload = <<>>
    /\ ji_in_flight = {}
    /\ ji_requests = <<>>
    /\ ji_answers = <<>>
    /\ ji_result = NoResult

\* (changed) the request is sent without awaiting the one before it
JiraSendsWithoutAwait(req, pc) ==
    /\ ji_pc' = pc
    /\ ji_in_flight' = ji_in_flight \cup {req}
    /\ ji_requests' = Append(ji_requests, req)
    /\ UNCHANGED ji_result

JiraSends(req, pc) ==
    /\ ji_pc' = pc
    /\ ji_in_flight' = {req}
    /\ ji_requests' = Append(ji_requests, req)
    /\ UNCHANGED ji_result

JiraEnds(result) ==
    /\ ji_pc' = result.status
    /\ ji_result' = result
    /\ ji_in_flight' = {}
    /\ UNCHANGED ji_requests

\* The loop over the subtasks goes on after position i with the payload
\* collected so far: the next reference with a key is requested, or the
\* result is built
JiraContinues(data, i, payload) ==
    LET n == next_subtask(data.fields.subtasks, i) IN
    /\ ji_subtasks_payload' = payload
    /\ IF n > 0
         THEN /\ ji_sub_idx' = n
              /\ JiraSends(IssueRequest(KeyText(data.fields.subtasks[n])), "await_subtask")
         ELSE /\ ji_sub_idx' = Len(data.fields.subtasks)
              /\ JiraEnds(JiraResult(data, payload))

\* The issue is requested
JiraCall ==
    /\ ji_pc = "idle"
    /\ JiraSends(IssueRequest(ji_issue_key), "await_issue")
    /\ UNCHANGED <<ji_issue_key, ji_issue_data, ji_sub_idx, ji_subtasks_payload, ji_answers>>
    /\ UNCHANGED besidesJira

\* The issue arrives: description, comments and history are extracted, then
\* the first subtask is requested or the result is built
JiraIssueResponse ==
    /\ ji_pc = "await_issue"
    /\ ji_answers' = Append(ji_answers, "ok")
    /\ \E data \in IssueDatas :
         /\ ji_issue_data' = data
         /\ IF IssueHead(data).raised
              THEN /\ JiraEnds([status |-> "raised", error |-> "AttributeError"])
                   /\ UNCHANGED <<ji_sub_idx, ji_subtasks_payload>>
              ELSE JiraContinues(data, 0, <<>>)
    /\ UNCHANGED ji_issue_key
    /\ UNCHANGED besidesJira

\* (changed) a failed request for the issue is reported in a returned document
JiraIssueFailsReported ==
    /\ ji_pc = "await_issue"
    /\ \E e \in Failures :
         /\ ji_answers' = Append(ji_answers, e)
         /\ JiraEnds([status |-> "returned", doc |-> [error |-> e]])
    /\ UNCHANGED <<ji_issue_key, ji_issue_data, ji_sub_idx, ji_subtasks_payload>>
    /\ UNCHANGED besidesJira

\* The request for the issue fails: the call fails
JiraIssueFails ==
    /\ ji_pc = "await_issue"
    /\ \E e \in Failures :
         /\ ji_answers' = Append(ji_answers, e)
         /\ JiraEnds([status |-> "raised", error |-> e])
    /\ UNCHANGED <<ji_issue_key, ji_issue_data, ji_sub_idx, ji_subtasks_payload>>
    /\ UNCHANGED besidesJira

\* A subtask arrives: its entry is appended, then the next subtask is
\* requested or the result is built
JiraSubtaskResponse ==
    /\ ji_pc = "await_subtask"
    /\ ji_answers' = Append(ji_answers, "ok")
    /\ \E sub_data \in SubDatas(KeyText(ji_issue_data.fields.subtasks[ji_sub_idx])) :
         LET e == SubtaskEntry(sub_data) IN
         IF e.raised
           THEN /\ JiraEnds([status |-> "raised", error |-> "AttributeError"])
                /\ UNCHANGED <<ji_sub_idx, ji_subtasks_payload>>
           ELSE JiraContinues(ji_issue_data, ji_sub_idx, Append(ji_subtasks_payload, e.entry))
    /\ UNCHANGED <<ji_issue_key, ji_issue_data>>
    /\ UNCHANGED besidesJira

\* The request for a subtask fails
JiraSubtaskFails ==
    /\ ji_pc = "await_subtask"
    /\ \E e \in Failures :
         LET f == SubtaskFailure(ji_subtasks_payload,
                                 KeyText(ji_issue_data.fields.subtasks[ji_sub_idx]), e) IN
         /\ ji_answers' = Append(ji_answers, e)
         /\ IF f.ends
              THEN /\ JiraEnds([status |-> "raised", error |-> e])
                   /\ UNCHANGED <<ji_sub_idx, ji_subtasks_payload>>
              ELSE JiraContinues(ji_issue_data, ji_sub_idx, f.payload)
    /\ UNCHANGED <<ji_issue_key, ji_issue_data>>
    /\ UNCHANGED besidesJira

NextJira ==
    \/ JiraCall
    \/ JiraIssueResponse
    \/ JiraIssueFails
    \/ JiraSubtaskResponse
    \/ JiraSubtaskFails

-----------------------------------------------------------------------------
(* get_issues_by_assignee: a search, then per issue of the page its detail  *)
(* and one request per subtask reference; failures inside are swallowed.    *)

\* f'assignee = "{assignee_email}" ORDER BY updated DESC'
AssigneeJql(email) ==
    <<"assignee = \"">> \o email \o <<"\" ORDER BY updated DESC">>

\* x = fields.get(name, {}); x.get(inner, default) if x else default
GuardedGet(v, inner, default) == IF v \in {Absent, PyNone} THEN default ELSE v[inner]

\* The guarded loop over the comments: a null author gives 'Unknown'
GuardedCommentEntry(c) ==
    LET b == extract_text_from_adf(IF c.body = Absent THEN EmptyStr ELSE c.body)
    IN  [raised |-> b.raised,
         entry |-> [author |-> GuardedGet(c.author, "displayName", Unknown), body |-> b.value]]

GuardedCommentsOf(container) ==
    LET cs == GuardedGet(container, "comments", <<>>) IN
    [raised |-> \E i \in 1..Len(cs) : GuardedCommentEntry(cs[i]).raised,
     entries |-> [i \in 1..Len(cs) |-> GuardedCommentEntry(cs[i]).entry]]

GuardedHistoryOf(changelog) ==
    LET hs == GuardedGet(changelog, "histories", <<>>) IN
    [i \in 1..Len(hs) |->
        [author |-> GuardedGet(hs[i].author, "displayName", Unknown), created |-> hs[i].created]]

\* The statements between an issue's arrival and the loop over its subtasks;
\* an exception here reaches the outer except clause
AssigneeIssueHead(data) ==
    LET d == DescriptionOf(data.fields.description)
        cm == GuardedCommentsOf(data.fields.comment)
    IN  [raised |-> d.raised \/ cm.raised, description |-> d.value,
         comments |-> cm.entries, history |-> GuardedHistoryOf(data.changelog)]

\* The entry appended to subtasks_payload for sub_data; an exception here
\* reaches the inner except clause
AssigneeSubtaskEntry(sub_data) ==
    LET d == DescriptionOf(sub_data.fields.description)
        cm == GuardedCommentsOf(sub_data.fields.comment)
    IN  [raised |-> d.raised \/ cm.raised,
         entry |-> [key |-> sub_data.key, summary |-> sub_data.fields.summary,
                    description |-> d.value,
                    status |-> GuardedGet(sub_data.fields.status, "name", EmptyStr),
                    comments |-> cm.entries,
                    history |-> GuardedHistoryOf(sub_data.changelog)]]

\* formatted_issue
FormattedIssue(data, payload) ==
    LET head == AssigneeIssueHead(data) IN
    [key |-> data.key, summary |-> data.fields.summary, description |-> head.description,
     status |-> GuardedGet(data.fields.status, "name", EmptyStr),
     comments |-> head.comments, history |-> head.history, subtasks |-> payload]

\* (changed) the inner except clause appends an entry that carries the error
SkippedSubtaskRecorded(payload, key, e) == Append(payload, [key |-> PyStr(key), error |-> e])
\* except Exception as e: continue
SkippedSubtask(payload, key, e) == payload

\* The result of the call
AssigneeResult(data, formatted) ==
    [status |-> "returned",
     doc |-> [assignee |-> assignee_email,
              total_issues |-> IF data.total = Absent THEN 0 ELSE data.total.n,
              returned_issues |-> Len(formatted),
              start_at |-> as_start_at,
              max_results |-> as_max_results,
              issues |-> formatted]]
NoData == [status |-> "returned", doc |-> [error |-> "No data returned from API"]]

\* What the upstream answers
Emails == {<<"u", "@", "x">>}
PageKeys == {<<"I", "1">>, <<"I", "2">>}
IssueSummaries == {[key |-> k] : k \in {Absent} \cup {PyStr(s) : s \in PageKeys}}
EmptyPage == [total |-> Absent, issues |-> Absent]
SearchPages ==
    {EmptyPage}
    \cup {[total |-> PyInt(5), issues |-> PyList(l)] :
            l \in UNION {[1..n -> IssueSummaries] : n \in 0..MaxIssues}}
PageIssues(data) == IF data.issues = Absent THEN <<>> ELSE data.issues.v

MalformedDescription == PyDict("doc", Absent, PyList(<<PyStr(<<"a">>)>>))
NullAuthorComment == [comments |-> <<[author |-> PyNone, body |-> PyStr(<<"b">>)]>>]
Ref(k) == [key |-> PyStr(k)]
AssigneeSubtaskLists ==
    {<<>>, <<Ref(<<"S", "1">>)>>, <<Ref(<<"S", "1">>), Ref(<<"S", "2">>)>>,
     <<[key |-> Absent], Ref(<<"S", "1">>)>>}
\* The detail of an issue: with subtasks, with a description that makes the
\* extraction raise, or without fields
AssigneeIssueDatas(key) ==
    {[key |-> PyStr(key),
      fields |-> [summary |-> PyStr(<<"s">>), description |-> Absent, status |-> PyNone,
                  comment |-> NullAuthorComment, subtasks |-> subs],
      changelog |-> Absent] : subs \in AssigneeSubtaskLists}
    \cup {[key |-> PyStr(key),
           fields |-> [summary |-> PyStr(<<"s">>), description |-> MalformedDescription,
                       status |-> PyNone, comment |-> Absent, subtasks |-> <<>>],
           changelog |-> Absent],
          [key |-> PyStr(key), fields |-> Absent, changelog |-> Absent]}
AssigneeSubDatas(key) ==
    {[key |-> PyStr(key),
      fields |-> [summary |-> PyStr(<<"s">>), description |-> d, status |-> PyNone,
                  comment |-> Absent],
      changelog |-> Absent] : d \in {Absent, MalformedDescription}}

InitAssignee ==
    /\ as_pc = "idle"
    /\ assignee_email \in Emails
    /\ as_max_results = 50
    /\ as_start_at = 0
    /\ as_data = Absent
    /\ as_issue_idx = 0
    /\ as_issue_data = Absent
    /\ as_sub_idx = 0
    /\ as_subtasks_payload = <<>>
    /\ formatted_issues = <<>>
    /\ as_in_flight = {}
    /\ as_requests = <<>>
    /\ as_answers = <<>>
    /\ as_result = NoResult

AssigneeSends(req, pc) ==
    /\ as_pc' = pc
    /\ as_in_flight' = {req}
    /\ as_requests' = Append(as_requests, req)
    /\ UNCHANGED as_result

AssigneeEnds(result) ==
    /\ as_pc' = result.status
    /\ as_result' = result
    /\ as_in_flight' = {}
    /\ UNCHANGED as_requests

\* The loop over the issues of the page goes on after position i: the next
\* issue with a key is requested, or the result is built
IssueLoop(data, i, formatted) ==
    LET n == next_subtask(PageIssues(data), i) IN
    /\ formatted_issues' = formatted
    /\ as_subtasks_payload' = <<>>
    /\ as_sub_idx' = 0
    /\ IF n > 0
         THEN /\ as_issue_idx' = n
              /\ AssigneeSends(IssueRequest(KeyText(PageIssues(data)[n])), "await_issue")
         ELSE /\ as_issue_idx' = Len(PageIssues(data))
              /\ AssigneeEnds(AssigneeResult(data, formatted))

\* The loop over the subtasks of the issue goes on after position j: the next
\* reference with a key is requested, or the issue is formatted and the loop
\* over the issues goes on
SubtaskLoop(j, payload) ==
    LET n == next_subtask(as_issue_data.fields.subtasks, j) IN
    IF n > 0
      THEN /\ as_sub_idx' = n
           /\ as_subtasks_payload' = payload
           /\ AssigneeSends(IssueRequest(KeyText(as_issue_data.fields.subtasks[n])),
                            "await_subtask")
           /\ UNCHANGED <<as_issue_idx, formatted_issues>>
      ELSE IssueLoop(as_data, as_issue_idx,
                     Append(formatted_issues, FormattedIssue(as_issue_data, payload)))

\* The search is sent
AssigneeCall ==
    /\ as_pc = "idle"
    /\ AssigneeSends(SearchRequest(AssigneeJql(assignee_email), as_max_results, as_start_at),
                     "await_search")
    /\ UNCHANGED <<assignee_email, as_max_results, as_start_at, as_data, as_issue_idx,
                   as_issue_data, as_sub_idx, as_subtasks_payload, formatted_issues, as_answers>>
    /\ UNCHANGED besidesAssignee

\* The page arrives: an empty answer is reported, else the first issue with a
\* key is requested
AssigneeSearchResponse ==
    /\ as_pc = "await_search"
    /\ as_answers' = Append(as_answers, "ok")
    /\ \E data \in SearchPages :
         /\ as_data' = data
         /\ IF data = EmptyPage
              THEN /\ AssigneeEnds(NoData)
                   /\ UNCHANGED <<as_issue_idx, as_sub_idx, as_subtasks_payload,
                                  formatted_issues>>
              ELSE IssueLoop(data, 0, <<>>)
    /\ UNCHANGED <<assignee_email, as_max_results, as_start_at, as_issue_data>>
    /\ UNCHANGED besidesAssignee

\* The search fails, outside every try: the call fails
AssigneeSearchFails ==
    /\ as_pc = "await_search"
    /\ \E e \in Failures :
         /\ as_answers' = Append(as_answers, e)
         /\ AssigneeEnds([status |-> "raised", error |-> e])
    /\ UNCHANGED <<assignee_email, as_max_results, as_start_at, as_data, as_issue_idx,
                   as_issue_data, as_sub_idx, as_subtasks_payload, formatted_issues>>
    /\ UNCHANGED besidesAssignee

\* The detail of an issue arrives: an issue without fields, or one whose
\* extraction raises, is dropped; else its first subtask is requested or it is
\* formatted
AssigneeIssueResponse ==
    /\ as_pc = "await_issue"
    /\ \E data \in AssigneeIssueDatas(KeyText(PageIssues(as_data)[as_issue_idx])) :
         /\ as_issue_data' = data
         /\ IF data.fields = Absent \/ AssigneeIssueHead(data).raised
              THEN /\ as_answers' = Append(as_answers, "unusable")
                   /\ IssueLoop(as_data, as_issue_idx, formatted_issues)
              ELSE /\ as_answers' = Append(as_answers, "ok")
                   /\ LET n == next_subtask(data.fields.subtasks, 0) IN
                      IF n > 0
                        THEN /\ as_sub_idx' = n
                             /\ as_subtasks_payload' = <<>>
                             /\ AssigneeSends(IssueRequest(KeyText(data.fields.subtasks[n])),
                                              "await_subtask")
                             /\ UNCHANGED <<as_issue_idx, formatted_issues>>
                        ELSE IssueLoop(as_data, as_issue_idx,
                                       Append(formatted_issues, FormattedIssue(data, <<>>)))
    /\ UNCHANGED <<assignee_email, as_max_results, as_start_at, as_data>>
    /\ UNCHANGED besidesAssignee

\* (changed) the failure of an issue's request leaves the call
AssigneeIssueFailsAborting ==
    /\ as_pc = "await_issue"
    /\ \E e \in Failures :
         /\ as_answers' = Append(as_answers, e)
         /\ AssigneeEnds([status |-> "raised", error |-> e])
    /\ UNCHANGED <<as_issue_idx, as_sub_idx, as_subtasks_payload, formatted_issues>>
    /\ UNCHANGED <<assignee_email, as_max_results, as_start_at, as_data, as_issue_data>>
    /\ UNCHANGED besidesAssignee

\* The request for an issue fails: the outer except clause drops the issue
AssigneeIssueFails ==
    /\ as_pc = "await_issue"
    /\ \E e \in Failures : as_answers' = Append(as_answers, e)
    /\ IssueLoop(as_data, as_issue_idx, formatted_issues)
    /\ UNCHANGED <<assignee_email, as_max_results, as_start_at, as_data, as_issue_data>>
    /\ UNCHANGED besidesAssignee

\* A subtask arrives: its entry is appended, or it is skipped when building
\* the entry raises
AssigneeSubtaskResponse ==
    /\ as_pc = "await_subtask"
    /\ \E sub_data \in AssigneeSubDatas(KeyText(as_issue_data.fields.subtasks[as_sub_idx])) :
         LET e == AssigneeSubtaskEntry(sub_data) IN
         /\ as_answers' = Append(as_answers, IF e.raised THEN "unusable" ELSE "ok")
         /\ SubtaskLoop(as_sub_idx,
                     IF e.raised
                     THEN SkippedSubtask(as_subtasks_payload, sub_data.key.s, "Exception")
                     ELSE Append(as_subtasks_payload, e.entry))
    /\ UNCHANGED <<assignee_email, as_max_results, as_start_at, as_data, as_issue_data>>
    /\ UNCHANGED besidesAssignee

\* The request for a subtask fails: the inner except clause skips the subtask
AssigneeSubtaskFails ==
    /\ as_pc = "await_subtask"
    /\ \E e \in Failures :
         /\ as_answers' = Append(as_answers, e)
         /\ SubtaskLoop(as_sub_idx,
                        SkippedSubtask(as_subtasks_payload,
                                       KeyText(as_issue_data.fields.subtasks[as_sub_idx]), e))
    /\ UNCHANGED <<assignee_email, as_max_results, as_start_at, as_data, as_issue_data>>
    /\ UNCHANGED besidesAssignee

NextAssignee ==
    \/ AssigneeCall
    \/ AssigneeSearchResponse
    \/ AssigneeSearchFails
    \/ AssigneeIssueResponse
    \/ AssigneeIssueFails
    \/ AssigneeSubtaskResponse
    \/ AssigneeSubtaskFails

-----------------------------------------------------------------------------
(* get_jira_issue_confluence_content: the issue, its remote links, then one *)
(* page request per Confluence link with a page id.                         *)

\* The tool is defined twice under one name; both definitions are registered
\* with @mcp.tool(), in this order
ToolDefinitions == <<"first", "second">>
\* (changed) the earlier registration is kept
RegisteredFirst == ToolDefinitions[1]
\* FastMCP("atlassian-custom-tools") keeps the default policy for a tool that
\* is registered again: the later registration replaces the earlier one
Registered == ToolDefinitions[Len(ToolDefinitions)]

\* s holds lit at position i
At(s, i, lit) == i + Len(lit) - 1 <= Len(s) /\ SubSeq(s, i, i + Len(lit) - 1) = lit

\* `sub in s`, for a sub that is not empty
Contains(s, sub) == \E i \in 1..Len(s) : At(s, i, sub)

Digits == {"0", "1", "2", "3", "4", "5", "6", "7", "8", "9"}

\* (\d+) matched at position i: the longest run of digits from there
RECURSIVE DigitRun(_, _)
DigitRun(s, i) ==
    IF i <= Len(s) /\ s[i] \in Digits THEN <<s[i]>> \o DigitRun(s, i + 1) ELSE <<>>

Least(S) == CHOOSE i \in S : \A j \in S : i <= j

\* re.search(r"[?&]pageId=(\d+)", url): group 1 of the leftmost match, or None
SearchPageIdParam(s) ==
    LET hits == {i \in 1..Len(s) :
                   /\ s[i] \in {"?", "&"}
                   /\ At(s, i + 1, <<"p", "a", "g", "e", "I", "d", "=">>)
                   /\ DigitRun(s, i + 8) # <<>>}
    IN  IF hits = {} THEN PyNone ELSE PyStr(DigitRun(s, Least(hits) + 8))

\* The end of the run [^/]+ that starts at position k: the position of the
\* next "/", or 0
NextSlash(s, k) ==
    LET slashes == {j \in k..Len(s) : s[j] = "/"}
    IN  IF slashes = {} THEN 0 ELSE Least(slashes)

\* The position of the digits of r"/spaces/[^/]+/pages/(\d+)" matched at i, or 0
PathDigitsAt(s, i) ==
    IF ~At(s, i, <<"/", "s", "p", "a", "c", "e", "s", "/">>) THEN 0
    ELSE LET j == NextSlash(s, i + 8) IN
         IF j > i + 8 /\ At(s, j, <<"/", "p", "a", "g", "e", "s", "/">>) /\ DigitRun(s, j + 7) # <<>> THEN j + 7 ELSE 0

\* re.search(r"/spaces/[^/]+/pages/(\d+)", url): group 1 of the leftmost match
SearchPagesPath(s) ==
    LET hits == {i \in 1..Len(s) : PathDigitsAt(s, i) > 0}
    IN  IF hits = {} THEN PyNone ELSE PyStr(DigitRun(s, PathDigitsAt(s, Least(hits))))

\* (changed) the path pattern is tried first
extract_page_id_PathFirst(confluence_url) ==
    LET m2 == SearchPagesPath(confluence_url) IN
    IF m2 # PyNone THEN m2 ELSE SearchPageIdParam(confluence_url)

extract_page_id(confluence_url) ==
    LET m1 == SearchPageIdParam(confluence_url) IN
    IF m1 # PyNone THEN m1 ELSE SearchPagesPath(confluence_url)

\* url_str = obj.get('url', '')
UrlOf(link) == IF link.object.url = Absent THEN <<>> ELSE link.object.url.s
\* obj.get('title', 'Untitled')
TitleOf(link) ==
    IF link.object.title = Absent THEN PyStr(<<"U", "n", "t", "i", "t", "l", "e", "d">>) ELSE link.object.title

\* (changed) the word is looked for as written, without .lower()
IsConfluenceLinkCaseSensitive(link) ==
    Contains(UrlOf(link), <<"/", "w", "i", "k", "i", "/">>) \/ Contains(UrlOf(link), <<"c", "o", "n", "f", "l", "u", "e", "n", "c", "e">>)

\* if '/wiki/' in url_str or 'confluence' in url_str.lower()
IsConfluenceLink(link) ==
    Contains(UrlOf(link), <<"/", "w", "i", "k", "i", "/">>) \/ Contains(py_lower(UrlOf(link)), <<"c", "o", "n", "f", "l", "u", "e", "n", "c", "e">>)

RemoteLinksRequest(key) == [kind |-> "remotelink", key |-> key]
PageRequest(page_id) == [kind |-> "page", key |-> page_id]

\* The entry of a page that arrived
PageEntry(link, page_id, page_data) ==
    LET space == NestedGet(page_data.space, "name", Unknown)
    IN  [raised |-> space.raised,
         entry |-> [link_id |-> link.id, page_id |-> page_id,
                    title |-> IF page_data.title = Absent THEN TitleOf(link) ELSE page_data.title,
                    url |-> UrlOf(link), space |-> space.value,
                    content_html |-> page_data.view, content_storage |-> page_data.storage]]

\* (changed) the entry of a failure does not keep the page id
FailedPageEntryWithoutId(link, page_id, e) ==
    [link_id |-> link.id, title |-> TitleOf(link), url |-> UrlOf(link),
     error |-> <<"Failed to fetch content: ", e>>]

\* except Exception as e: the entry of a page that could not be fetched
FailedPageEntry(link, page_id, e) ==
    [link_id |-> link.id, page_id |-> page_id, title |-> TitleOf(link), url |-> UrlOf(link),
     error |-> <<"Failed to fetch content: ", e>>]

\* A Confluence link without page id. The second definition has an else
\* branch that appends an entry; the first definition has none.
NoPageIdEntry(pages, link) ==
    IF Registered = "second"
    THEN Append(pages, [link_id |-> link.id, title |-> TitleOf(link), url |-> UrlOf(link),
                        error |-> "Could not extract page ID from URL"])
    ELSE pages

\* The loop over the links goes on after position i with the pages collected:
\* it runs to the next link whose page is to be fetched (stop), or to the end
\* of the links (stop = 0)
RECURSIVE scan_links(_, _, _)
scan_links(links, i, pages) ==
    IF i >= Len(links) THEN [stop |-> 0, pages |-> pages]
    ELSE LET link == links[i + 1] IN
         IF ~IsConfluenceLink(link) THEN scan_links(links, i + 1, pages)
         ELSE IF extract_page_id(UrlOf(link)) = PyNone
              THEN scan_links(links, i + 1, NoPageIdEntry(pages, link))
         ELSE [stop |-> i + 1, pages |-> pages]

ConfluenceResult(pages) ==
    [status |-> "returned",
     doc |-> [issue_key |-> cf_issue_key,
              issue_summary |-> cf_issue_data.fields.summary,
              confluence_pages_count |-> Len(pages),
              confluence_pages |-> pages]]

\* What the upstream answers
Urls ==
    {<<"/", "w", "i", "k", "i", "/", "x", "?", "p", "a", "g", "e", "I", "d", "=", "1", "2">>, <<"/", "w", "i", "k", "i", "/", "s", "p", "a", "c", "e", "s", "/", "S", "/", "p", "a", "g", "e", "s", "/", "3", "4", "/", "t">>, <<"/", "w", "i", "k", "i", "/", "s", "p", "a", "c", "e", "s", "/", "S", "/", "p", "a", "g", "e", "s", "/", "3", "4", "?", "a", "=", "1", "&", "p", "a", "g", "e", "I", "d", "=", "1", "2">>, <<"/", "w", "i", "k", "i", "/", "x">>, <<"c", ".", "C", "o", "n", "f", "l", "u", "e", "n", "c", "e", ".", "i", "o", "/", "p", "a", "g", "e", "s", "/", "7">>, <<"/", "j", "i", "r", "a", "/", "b", "?", "p", "a", "g", "e", "I", "d", "=", "5">>}
LinkObjects == {[url |-> PyStr(u), title |-> PyStr(<<"T">>)] : u \in Urls}
                   \cup {[url |-> Absent, title |-> Absent],
                         [url |-> PyStr(<<"/", "w", "i", "k", "i", "/", "x">>), title |-> Absent]}
LinkLists ==
    UNION {{[i \in 1..n |-> [id |-> i, object |-> objs[i]]] : objs \in [1..n -> LinkObjects]} :
             n \in 0..MaxLinks}
PageDatas ==
    {[title |-> ti, space |-> sp, view |-> PyStr(<<"h">>), storage |-> PyStr(<<"x">>)] :
        ti \in {Absent, PyStr(<<"P">>)}, sp \in {PyNone, [name |-> PyStr(<<"D">>)]}}

InitConfluence ==
    /\ cf_pc = "idle"
    /\ cf_issue_key \in IssueKeys
    /\ cf_issue_data = Absent
    /\ links_data = <<>>
    /\ cf_link_idx = 0
    /\ confluence_pages = <<>>
    /\ cf_in_flight = {}
    /\ cf_requests = <<>>
    /\ cf_answers = <<>>
    /\ cf_result = NoResult

ConfluenceSends(req, pc) ==
    /\ cf_pc' = pc
    /\ cf_in_flight' = {req}
    /\ cf_requests' = Append(cf_requests, req)
    /\ UNCHANGED cf_result

ConfluenceEnds(result) ==
    /\ cf_pc' = result.status
    /\ cf_result' = result
    /\ cf_in_flight' = {}
    /\ UNCHANGED cf_requests

\* The loop over `links` goes on after position i: the next page is requested
\* or the result is built
LinkLoop(links, i, pages) ==
    LET s == scan_links(links, i, pages) IN
    /\ confluence_pages' = s.pages
    /\ IF s.stop > 0
         THEN /\ cf_link_idx' = s.stop
              /\ ConfluenceSends(PageRequest(extract_page_id(UrlOf(links[s.stop])).s),
                                 "await_page")
         ELSE /\ cf_link_idx' = Len(links)
              /\ ConfluenceEnds(ConfluenceResult(s.pages))

\* The issue is requested
ConfluenceCall ==
    /\ cf_pc = "idle"
    /\ ConfluenceSends(IssueRequest(cf_issue_key), "await_issue")
    /\ UNCHANGED <<cf_issue_key, cf_issue_data, links_data, cf_link_idx, confluence_pages,
                   cf_answers>>
    /\ UNCHANGED besidesConfluence

\* The issue arrives; its remote links are requested
ConfluenceIssueResponse ==
    /\ cf_pc = "await_issue"
    /\ cf_answers' = Append(cf_answers, "ok")
    /\ cf_issue_data' = [fields |-> [summary |-> PyStr(<<"s">>)]]
    /\ ConfluenceSends(RemoteLinksRequest(cf_issue_key), "await_links")
    /\ UNCHANGED <<cf_issue_key, links_data, cf_link_idx, confluence_pages>>
    /\ UNCHANGED besidesConfluence

\* The request for the issue, or for its remote links, fails: the call fails
ConfluenceFirstFetchFails ==
    /\ cf_pc \in {"await_issue", "await_links"}
    /\ \E e \in Failures :
         /\ cf_answers' = Append(cf_answers, e)
         /\ ConfluenceEnds([status |-> "raised", error |-> e])
    /\ UNCHANGED <<cf_issue_key, cf_issue_data, links_data, cf_link_idx, confluence_pages>>
    /\ UNCHANGED besidesConfluence

\* The links arrive: the loop over them starts
ConfluenceLinksResponse ==
    /\ cf_pc = "await_links"
    /\ cf_answers' = Append(cf_answers, "ok")
    /\ \E links \in LinkLists :
         /\ links_data' = links
         /\ LinkLoop(links, 0, <<>>)
    /\ UNCHANGED <<cf_issue_key, cf_issue_data>>
    /\ UNCHANGED besidesConfluence

\* A page arrives: its entry is appended, or the entry of a failure when
\* building it raises; the loop goes on
ConfluencePageResponse ==
    /\ cf_pc = "await_page"
    /\ cf_answers' = Append(cf_answers, "ok")
    /\ \E page_data \in PageDatas :
         LET link == links_data[cf_link_idx]
             page_id == extract_page_id(UrlOf(link))
             e == PageEntry(link, page_id, page_data)
         IN  LinkLoop(links_data, cf_link_idx,
                      Append(confluence_pages,
                             IF e.raised THEN FailedPageEntry(link, page_id, "AttributeError")
                             ELSE e.entry))
    /\ UNCHANGED <<cf_issue_key, cf_issue_data, links_data>>
    /\ UNCHANGED besidesConfluence

\* The request for a page fails: the except clause appends the entry of a
\* failure; the loop goes on
ConfluencePageFails ==
    /\ cf_pc = "await_page"
    /\ \E e \in Failures :
         LET link == links_data[cf_link_idx] IN
         /\ cf_answers' = Append(cf_answers, e)
         /\ LinkLoop(links_data, cf_link_idx,
                     Append(confluence_pages,
                            FailedPageEntry(link, extract_page_id(UrlOf(link)), e)))
    /\ UNCHANGED <<cf_issue_key, cf_issue_data, links_data>>
    /\ UNCHANGED besidesConfluence

NextConfluence ==
    \/ ConfluenceCall
    \/ ConfluenceIssueResponse
    \/ ConfluenceFirstFetchFails
    \/ ConfluenceLinksResponse
    \/ ConfluencePageResponse
    \/ ConfluencePageFails

-----------------------------------------------------------------------------
(* Two calls of get_issues_by_assignee at the same time.  The server runs   *)
(* each call as a coroutine of its own: the calls interleave at their       *)
(* awaits.  A call is a record of its locals; the code from one await to    *)
(* the next is a function of that record, of the two lists the call appends *)
(* to, and of the answer it resumes with.                                   *)

Callers == {1, 2}

\* (changed) the lists are kept in one place for every call
HomeShared(c) == 1
\* formatted_issues = [] and subtasks_payload = [] are made inside the call:
\* each call appends to lists of its own
Home(c) == c

NoLists == [formatted_issues |-> <<>>, subtasks_payload |-> <<>>]

\* The locals of call c before its first await
NewCall(c, email) ==
    [pc |-> "idle", assignee_email |-> email, max_results |-> 50, start_at |-> 0,
     data |-> Absent, issue_idx |-> 0, issue_data |-> Absent, sub_idx |-> 0,
     in_flight |-> {}, requests |-> <<>>, result |-> NoResult]

\* await client.get(...): the call is suspended on `req`
PairSends(local, req, pc) ==
    [local EXCEPT !.pc = pc, !.in_flight = {req}, !.requests = Append(@, req)]

\* The call ends with `result`
PairEnds(local, result) ==
    [local EXCEPT !.pc = result.status, !.in_flight = {}, !.result = result]

\* The result of the call
PairResult(local, formatted) ==
    [status |-> "returned",
     doc |-> [assignee |-> local.assignee_email,
              total_issues |-> IF local.data.total = Absent THEN 0 ELSE local.data.total.n,
              returned_issues |-> Len(formatted),
              start_at |-> local.start_at,
              max_results |-> local.max_results,
              issues |-> formatted]]

\* The call up to its first await: the search is sent
PairStart(local) ==
    PairSends(local,
              SearchRequest(AssigneeJql(local.assignee_email), local.max_results,
                            local.start_at),
              "await_search")

\* The loop over the issues of the page goes on after position i
PairIssueLoop(local, i, formatted) ==
    LET n == next_subtask(PageIssues(local.data), i) IN
    IF n > 0
    THEN [local |-> PairSends([local EXCEPT !.issue_idx = n, !.sub_idx = 0],
                              IssueRequest(KeyText(PageIssues(local.data)[n])), "await_issue"),
          formatted_issues |-> formatted, subtasks_payload |-> <<>>]
    ELSE [local |-> PairEnds([local EXCEPT !.issue_idx = Len(PageIssues(local.data)),
                                           !.sub_idx = 0],
                             PairResult(local, formatted)),
          formatted_issues |-> formatted, subtasks_payload |-> <<>>]

\* The loop over the subtasks of the issue goes on after position j
PairSubtaskLoop(local, j, formatted, payload) ==
    LET n == next_subtask(local.issue_data.fields.subtasks, j) IN
    IF n > 0
    THEN [local |-> PairSends([local EXCEPT !.sub_idx = n],
                              IssueRequest(KeyText(local.issue_data.fields.subtasks[n])),
                              "await_subtask"),
          formatted_issues |-> formatted, subtasks_payload |-> payload]
    ELSE PairIssueLoop(local, local.issue_idx,
                       Append(formatted, FormattedIssue(local.issue_data, payload)))

\* The call resumes with the answer to the search
PairOnSearch(local, resp) ==
    IF ~resp.ok
    THEN [local |-> PairEnds(local, [status |-> "raised", error |-> resp.error]),
          formatted_issues |-> <<>>, subtasks_payload |-> <<>>]
    ELSE IF resp.data = EmptyPage
    THEN [local |-> PairEnds([local EXCEPT !.data = resp.data], NoData),
          formatted_issues |-> <<>>, subtasks_payload |-> <<>>]
    ELSE PairIssueLoop([local EXCEPT !.data = resp.data], 0, <<>>)

\* The call resumes with the answer to the request for an issue
PairOnIssue(local, formatted, resp) ==
    IF ~resp.ok THEN PairIssueLoop(local, local.issue_idx, formatted)
    ELSE LET got == [local EXCEPT !.issue_data = resp.data] IN
         IF resp.data.fields = Absent \/ AssigneeIssueHead(resp.data).raised
         THEN PairIssueLoop(got, local.issue_idx, formatted)
         ELSE PairSubtaskLoop(got, 0, formatted, <<>>)

\* subtasks_payload after the answer to the request for the subtask `key`,
\* where e is the entry built from a good answer
PairPayload(payload, key, resp, e) ==
    IF ~resp.ok THEN SkippedSubtask(payload, key, resp.error)
    ELSE IF e.raised THEN SkippedSubtask(payload, key, "Exception")
    ELSE Append(payload, e.entry)

\* The call resumes with the answer to the request for a subtask
PairOnSubtask(local, formatted, payload, resp) ==
    PairSubtaskLoop(local, local.sub_idx, formatted,
                    PairPayload(payload,
                                KeyText(local.issue_data.fields.subtasks[local.sub_idx]),
                                resp,
                                IF resp.ok THEN AssigneeSubtaskEntry(resp.data)
                                ELSE [raised |-> TRUE]))

\* The code of the call from the await it is suspended on to the next one,
\* on the lists it finds
PairResume(local, lists, resp) ==
    CASE local.pc = "await_search" -> PairOnSearch(local, resp)
      [] local.pc = "await_issue" -> PairOnIssue(local, lists.formatted_issues, resp)
      [] local.pc = "await_subtask" ->
           PairOnSubtask(local, lists.formatted_issues, lists.subtasks_payload, resp)

\* What the upstream answers: each call asks for its own assignee, and the
\* keys the upstream gives the two calls differ
PairEmail(c) == IF c = 1 THEN <<"u", "@", "x">> ELSE <<"v", "@", "x">>
PairKey(c, i) == <<IF c = 1 THEN "I" ELSE "J", <<"1", "2", "3", "4">>[i]>>
PairSubKey(c) == IF c = 1 THEN <<"S", "1">> ELSE <<"T", "1">>
PairPages(c) ==
    {EmptyPage}
    \cup {[total |-> PyInt(5), issues |-> PyList([i \in 1..n |-> Ref(PairKey(c, i))])] :
            n \in 1..MaxIssues}
PairComment(c) ==
    [comments |-> <<[author |-> [displayName |-> PyStr(PairEmail(c))],
                     body |-> DescriptionDoc(<<"a">>)]>>]
PairIssueDatas(c, key) ==
    {[key |-> PyStr(key),
      fields |-> [summary |-> PyStr(<<"s">>), description |-> DescriptionDoc(<<"a", " ">>),
                  status |-> [name |-> PyStr(<<"d">>)], comment |-> PairComment(c),
                  subtasks |-> subs],
      changelog |-> Absent] : subs \in {<<>>, <<Ref(PairSubKey(c))>>}}
    \cup {[key |-> PyStr(key), fields |-> Absent, changelog |-> Absent]}
PairSubDatas(c, key) ==
    {[key |-> PyStr(key),
      fields |-> [summary |-> PyStr(<<"s">>), description |-> Absent, status |-> PyNone,
                  comment |-> PairComment(c)],
      changelog |-> Absent]}

Answered(data) == [ok |-> TRUE, data |-> data, error |-> ""]
Failed(e) == [ok |-> FALSE, data |-> Absent, error |-> e]

\* The answers the request in flight of call c may get
PairAnswers(c, local) ==
    {Failed("HTTPStatusError")}
    \cup CASE local.pc = "await_search" -> {Answered(d) : d \in PairPages(c)}
           [] local.pc = "await_issue" ->
                {Answered(d) :
                   d \in PairIssueDatas(c, KeyText(PageIssues(local.data)[local.issue_idx]))}
           [] local.pc = "await_subtask" ->
                {Answered(d) :
                   d \in PairSubDatas(c, KeyText(local.issue_data.fields.subtasks[local.sub_idx]))}

InitPair ==
    /\ pr_calls = [c \in Callers |-> NewCall(c, PairEmail(c))]
    /\ pr_lists = [c \in Callers |-> NoLists]
    /\ pr_responses = [c \in Callers |-> <<>>]

\* Call c starts and is suspended on its search
PairCall(c) ==
    /\ pr_calls[c].pc = "idle"
    /\ pr_calls' = [pr_calls EXCEPT ![c] = PairStart(pr_calls[c])]
    /\ UNCHANGED <<pr_lists, pr_responses>>
    /\ UNCHANGED besidesPair

\* The request of call c is answered: the call runs to its next await, or
\* to its end
PairAnswer(c) ==
    /\ pr_calls[c].pc \in {"await_search", "await_issue", "await_subtask"}
    /\ \E resp \in PairAnswers(c, pr_calls[c]) :
       \E next \in {PairResume(pr_calls[c], pr_lists[Home(c)], resp)} :
         /\ pr_calls' = [pr_calls EXCEPT ![c] = next.local]
         /\ pr_lists' = [pr_lists EXCEPT ![Home(c)] =
                            [formatted_issues |-> next.formatted_issues,
                             subtasks_payload |-> next.subtasks_payload]]
         /\ pr_responses' = [pr_responses EXCEPT ![c] = Append(@, resp)]
    /\ UNCHANGED besidesPair

NextPair == \E c \in Callers : PairCall(c) \/ PairAnswer(c)

-----------------------------------------------------------------------------
(* What the claims about the sprint tools and get_epic_issues say.          *)

\* The three sprint-list requests of board b, in the order of the claims
SprintsOf(b) ==
    <<SprintsRequest(b, "active"), SprintsRequest(b, "closed"), SprintsRequest(b, "future")>>

RECURSIVE SprintsOfAll(_)
SprintsOfAll(boards) ==
    IF boards = <<>> THEN <<>> ELSE SprintsOf(Head(boards).id) \o SprintsOfAll(Tail(boards))

MatchSeen == \E i \in 1..Len(sp_seen) : sp_seen[i].match > 0

\* The sprint the last list received holds at the position sp_seen recorded
MatchedSprint == sprints_data[sp_seen[Len(sp_seen)].match]

\* Boards [B1, B2]; of the lists received, B2's closed list, and only it,
\* holds a sprint named as requested; every request succeeded
OnlySecondBoardClosed ==
    /\ sp_tool = "get" /\ sp_pc = "returned"
    /\ Len(boards_data) = 2
    /\ MatchSeen
    /\ \A i \in 1..Len(sp_seen) :
         sp_seen[i].match > 0 <=>
            (sp_seen[i].board = boards_data[2].id /\ sp_seen[i].state = "closed")

\* C7: in that run the requests are, in this order, the board list; B1 active,
\* closed, future; B2 active, closed; the issues of the matched sprint. B2
\* future is not requested, nothing follows the issues fetch, and the result
\* carries B2's id and the matched sprint's fields.
C7_RequestsOfSecondBoardClosed ==
    OnlySecondBoardClosed =>
        /\ sp_requests =
             <<BoardsRequest>> \o SprintsOf(boards_data[1].id)
             \o <<SprintsRequest(boards_data[2].id, "active"),
                  SprintsRequest(boards_data[2].id, "closed"),
                  IssuesRequest(MatchedSprint.id, sp_max_results)>>
        /\ sp_in_flight = {}
        /\ sp_result.status = "returned"
        /\ sp_result.doc.board_info.board_id = boards_data[2].id
        /\ sp_result.doc.sprint_info =
             [sprint_id |-> MatchedSprint.id, sprint_name |-> MatchedSprint.name,
              state |-> "closed"]
        /\ SameIgnoringCase(MatchedSprint.name.s, sprint_name)

C7_Witness ==
    /\ OnlySecondBoardClosed
    /\ Len(sp_requests) = 7
    /\ MatchedSprint.name.s # sprint_name

\* The place of the i-th sprint list received, in the order (board position,
\* state position)
PlaceOf(i) ==
    [board |-> IF sp_tool = "get" THEN boards_data[((i - 1) \div 3) + 1].id ELSE board_id,
     state |-> <<"active", "closed", "future">>[((i - 1) % 3) + 1]]

FoundReturned ==
    /\ sp_pc = "returned"
    /\ \/ sp_tool = "find" /\ sp_result.doc.found
       \/ sp_tool = "get" /\ "sprint_info" \in DOMAIN sp_result.doc

\* C8: the lists are received in the order (board position, state position);
\* a match ends the scan, so the match returned is the first sprint named as
\* requested of the first list that holds one, and no later match replaces it.
C8_FirstMatchWins ==
    /\ \A i \in 1..Len(sp_seen) :
         /\ sp_seen[i].board = PlaceOf(i).board /\ sp_seen[i].state = PlaceOf(i).state
         /\ sp_seen[i].match > 0 => (i = Len(sp_seen) /\ sprint = MatchedSprint)
    /\ FoundReturned =>
         /\ MatchSeen
         /\ sp_tool = "find" => sp_result.doc.sprint_id = MatchedSprint.id
         /\ sp_tool = "get" =>
              /\ sp_result.doc.sprint_info.sprint_id = MatchedSprint.id
              /\ sp_result.doc.board_info.board_id = sp_seen[Len(sp_seen)].board
    /\ (sp_pc = "returned" /\ MatchSeen) => FoundReturned

C8_Witness ==
    /\ FoundReturned /\ sp_tool = "get"
    /\ Len(sp_seen) = 5
    /\ Len(sprints_data) = 2
    /\ \A i \in 1..2 : SameIgnoringCase(NameOrEmpty(sprints_data[i]), sprint_name)
    /\ sp_result.doc.sprint_info.sprint_id = sprints_data[1].id

\* name is a part of message
Names(message, name) ==
    \E i \in 1..Len(message) : SubSeq(message, i, i + Len(name) - 1) = name

\* C9: when every request succeeds and no list received holds a sprint named
\* as requested, the call returns a document that names the requested sprint,
\* after the three states of every board, and no sprint-issues request is sent.
C9_NotFoundIsAResult ==
    /\ sp_pc = "raised" => sp_result.error \in Failures
    /\ (sp_pc = "returned" /\ ~MatchSeen) =>
         /\ sp_result.status = "returned"
         /\ \A i \in 1..Len(sp_requests) : sp_requests[i].kind # "issues"
         /\ sp_tool = "find" =>
              /\ sp_result.doc.found = FALSE
              /\ Names(sp_result.doc.message, sprint_name)
              /\ sp_requests = SprintsOf(board_id)
         /\ sp_tool = "get" =>
              /\ DOMAIN sp_result.doc = {"error"}
              /\ Names(sp_result.doc.error, sprint_name)
              /\ sp_requests = <<BoardsRequest>> \o SprintsOfAll(boards_data)

C9_Witness ==
    /\ sp_tool = "get" /\ sp_pc = "returned" /\ ~MatchSeen
    /\ Len(boards_data) = MaxBoards
    /\ Len(sp_seen) = 3 * MaxBoards

IsSearch(r) == r.kind = "search"

\* C10: a key-based search that fails with an HTTP status error is followed by
\* exactly one search, by the epic's id; when that one fails too its error is
\* the call's and no third search is sent. At most two searches are sent, and
\* the id-based one only after a failed key-based one.
C10_OneFallbackSearch ==
    /\ Cardinality({i \in 1..Len(ep_requests) : IsSearch(ep_requests[i])}) <= 2
    /\ Len(ep_requests) <= 3
    /\ Len(ep_requests) >= 2 =>
         ep_requests[2] =
            SearchRequest(<<"parent = ">> \o epic_key \o <<" OR \"Epic Link\" = ">> \o epic_key,
                          ep_max_results, start_at)
    /\ Len(ep_requests) = 3 =>
         /\ Len(ep_answers) >= 2 /\ ep_answers[2] = "HTTPStatusError"
         /\ IsSearch(ep_requests[3])
         /\ ep_requests[3].maxResults = ep_max_results
         /\ ep_requests[3].startAt = start_at
         /\ epic_data.id # Absent =>
              ep_requests[3].jql = <<"parent = ">> \o epic_data.id.s
    /\ (Len(ep_answers) >= 2 /\ ep_answers[2] = "HTTPStatusError") => Len(ep_requests) = 3
    /\ (Len(ep_answers) = 3 /\ ep_answers[3] # "ok") =>
         /\ ep_pc = "raised"
         /\ ep_result = [status |-> "raised", error |-> ep_answers[3]]
         /\ ep_in_flight = {}

C10_Witness ==
    /\ ep_pc = "raised"
    /\ Len(ep_requests) = 3
    /\ ep_answers = <<"ok", "HTTPStatusError", "HTTPStatusError">>
    /\ epic_data.id = PyStr(<<"7">>)

\* A search has been answered with a page
PageReceived == ep_issues_data # Absent

\* The document a caller is owed, from the arguments, the epic and the page
\* alone: nothing of the requests sent enters it
DocOf(key, mr, sa, meta, page) ==
    [epic_info |->
        [epic_key |-> key,
         epic_id |-> meta.id,
         epic_summary |-> meta.fields.summary,
         epic_assignee |-> IF meta.fields.assignee = Absent THEN PyStr(<<>>)
                           ELSE meta.fields.assignee.displayName],
     total_issues |-> IF page.total = Absent THEN 0 ELSE page.total.n,
     returned_issues |-> IF page.issues = Absent THEN 0 ELSE Len(page.issues.v),
     start_at |-> sa,
     max_results |-> mr,
     issues |-> IF page.issues = Absent THEN <<>> ELSE page.issues.v]

\* C11: the result of a run is determined by its arguments, the epic and the
\* page received, on the key path and on the id path alike; two runs that share
\* these return the same document (or fail alike), so the document does not
\* tell which search was answered.
C11_PathNotRevealed ==
    /\ ep_pc = "returned" =>
         /\ PageReceived
         /\ ep_result =
              [status |-> "returned",
               doc |-> DocOf(epic_key, ep_max_results, start_at, epic_data, ep_issues_data)]
    /\ (ep_pc = "raised" /\ PageReceived) =>
         /\ epic_data.fields.assignee = PyNone
         /\ ep_result = [status |-> "raised", error |-> "AttributeError"]
    /\ (PageReceived /\ epic_data.fields.assignee # PyNone) => ep_pc = "returned"

C11_Witness ==
    /\ ep_pc = "returned"
    /\ ep_answers = <<"ok", "HTTPStatusError", "ok">>
    /\ ep_issues_data.total = PyInt(2)
    /\ ep_result.doc.total_issues = 2

\* C12: every search carries max_results and start_at as given; the upstream
\* total is reported as total_issues and the length of the page received as
\* returned_issues; once a page is received no further request is sent, also
\* when the total exceeds the page.
C12_OnePagePassedThrough ==
    /\ \A i \in 1..Len(ep_requests) :
         IsSearch(ep_requests[i]) =>
            /\ ep_requests[i].maxResults = ep_max_results
            /\ ep_requests[i].startAt = start_at
    /\ PageReceived =>
         /\ ep_pc \in {"returned", "raised"}
         /\ ep_in_flight = {}
         /\ Len(ep_answers) = Len(ep_requests)
         /\ Cardinality({i \in 1..Len(ep_answers) :
                           IsSearch(ep_requests[i]) /\ ep_answers[i] = "ok"}) = 1
         /\ ep_answers[Len(ep_answers)] = "ok"
    /\ ep_pc = "returned" =>
         /\ ep_issues_data.total # Absent =>
              ep_result.doc.total_issues = ep_issues_data.total.n
         /\ ep_issues_data.issues # Absent =>
              /\ ep_result.doc.returned_issues = Len(ep_issues_data.issues.v)
              /\ ep_result.doc.issues = ep_issues_data.issues.v

C12_Witness ==
    /\ ep_pc = "returned"
    /\ start_at = 1
    /\ Len(ep_requests) = 3
    /\ ep_result.doc.total_issues > ep_result.doc.returned_issues
    /\ ep_result.doc.returned_issues = 1

\* C13: a run on an epic without assignee (fields.assignee null or absent)
\* whose requests succeed returns, with epic_assignee the empty string.
C13_NoAssigneeReturns ==
    (PageReceived /\ epic_data.fields.assignee \in {Absent, PyNone}) =>
        /\ ep_pc = "returned"
        /\ ep_result.doc.epic_info.epic_assignee = PyStr(<<>>)

-----------------------------------------------------------------------------
(* What the claims about get_jira_issue say.                                *)

JiraEnded == ji_pc \in {"returned", "raised"}
JiraAllAnswered == \A i \in 1..Len(ji_answers) : ji_answers[i] = "ok"

\* A value that is not there: the key is absent or holds null
Missing(v) == v \in {Absent, PyNone}

\* C14: a call whose fetches all succeed returns, whatever optional parts of
\* the issue are absent or null; a missing description, status or issuetype
\* is reported as the empty string and missing comments or changelog as the
\* empty sequence.
C14_MissingOptionalsDegrade ==
    (JiraEnded /\ JiraAllAnswered) =>
        /\ ji_pc = "returned"
        /\ Missing(ji_issue_data.fields.description) => ji_result.doc.description = EmptyStr
        /\ Missing(ji_issue_data.fields.status) => ji_result.doc.status = EmptyStr
        /\ Missing(ji_issue_data.fields.issuetype) => ji_result.doc.issuetype = EmptyStr
        /\ Missing(ji_issue_data.fields.comment) => ji_result.doc.comments = <<>>
        /\ Missing(ji_issue_data.changelog) => ji_result.doc.history = <<>>

\* The answers to the subtask requests that are failures
FailedSubtaskFetches == {i \in 2..Len(ji_answers) : ji_answers[i] # "ok"}

\* C17: a failed subtask fetch ends the call with that error; there is no
\* result document, so what was expanded before is lost, and no subtask after
\* the failing one is requested.
C17_SubtaskFailureFailsCall ==
    \A i \in FailedSubtaskFetches :
        /\ i = Len(ji_answers)
        /\ Len(ji_requests) = i
        /\ ji_pc = "raised"
        /\ ji_result = [status |-> "raised", error |-> ji_answers[i]]
        /\ ji_in_flight = {}

C17_Witness ==
    /\ FailedSubtaskFetches = {2}
    /\ ji_answers[2] = "HTTPStatusError"
    /\ Len(ji_issue_data.fields.subtasks) = 2
    /\ \A i \in 1..2 : ji_issue_data.fields.subtasks[i].key # Absent
    /\ ji_pc = "raised"

\* C18: a failed subtask fetch leaves, in the result, an entry for that
\* subtask that carries the error, and the call goes on to return.
C18_FailedItemLeavesErrorEntry ==
    (JiraEnded /\ FailedSubtaskFetches # {}) =>
        /\ ji_pc = "returned"
        /\ \E i \in 1..Len(ji_result.doc.subtasks) :
              "error" \in DOMAIN ji_result.doc.subtasks[i]

\* The references that carry a key, in reference order
RECURSIVE WithKey(_)
WithKey(subtasks) ==
    IF subtasks = <<>> THEN <<>>
    ELSE (IF Head(subtasks).key = Absent THEN <<>> ELSE <<Head(subtasks).key.s>>)
         \o WithKey(Tail(subtasks))

\* The requests of a run that expands one level: the issue, then the keyed
\* references of the issue in order
OneLevel(key, subtasks) ==
    <<IssueRequest(key)>>
    \o [i \in 1..Len(WithKey(subtasks)) |-> IssueRequest(WithKey(subtasks)[i])]

IsPrefix(s, u) == Len(s) <= Len(u) /\ s = SubSeq(u, 1, Len(s))

\* C19: the requests sent are always a prefix of: the issue, then one request
\* per reference with a key, in order; a run that returns has sent all of
\* them, 1 + k requests; no subtask listed by a subtask is ever requested.
C19_OneLevelOfSubtasks ==
    /\ ji_issue_data = Absent => IsPrefix(ji_requests, <<IssueRequest(ji_issue_key)>>)
    /\ ji_issue_data # Absent =>
         IsPrefix(ji_requests, OneLevel(ji_issue_key, ji_issue_data.fields.subtasks))
    /\ ji_pc = "returned" =>
         /\ ji_requests = OneLevel(ji_issue_key, ji_issue_data.fields.subtasks)
         /\ Len(ji_requests) = 1 + Len(WithKey(ji_issue_data.fields.subtasks))
         /\ Len(ji_result.doc.subtasks) = Len(WithKey(ji_issue_data.fields.subtasks))
    /\ \A i \in 1..Len(ji_requests) : ji_requests[i].key # <<"G", "1">>

C19_Witness ==
    /\ ji_pc = "returned"
    /\ Len(ji_issue_data.fields.subtasks) = 2
    /\ ji_issue_data.fields.subtasks[1].key = Absent
    /\ Len(ji_requests) = 2
    /\ Len(ji_result.doc.subtasks) = 1

-----------------------------------------------------------------------------
(* What the claims about get_issues_by_assignee say.                        *)

\* What the first n requests and their answers leave of the page: per issue
\* requested, whether it is kept and the keys of its subtasks fetched and used
RECURSIVE Collected(_)
Collected(n) ==
    IF n <= 1 THEN <<>>
    ELSE LET before == Collected(n - 1)
             key == as_requests[n].key
             ok == as_answers[n] = "ok"
         IN  IF key \in PageKeys
             THEN Append(before, [key |-> key, kept |-> ok, subtasks |-> <<>>])
             ELSE [before EXCEPT ![Len(before)].subtasks = IF ok THEN Append(@, key) ELSE @]

IsKept(c) == c.kept
KeysOnly(c) == [key |-> c.key, subtasks |-> c.subtasks]
KeptIssues ==
    LET kept == SelectSeq(Collected(Len(as_answers)), IsKept)
    IN  [i \in 1..Len(kept) |-> KeysOnly(kept[i])]

\* The keys of the issues of the result and of their subtasks
ResultKeys ==
    [i \in 1..Len(as_result.doc.issues) |->
        [key |-> as_result.doc.issues[i].key.s,
         subtasks |-> [j \in 1..Len(as_result.doc.issues[i].subtasks) |->
                          as_result.doc.issues[i].subtasks[j].key.s]]]

\* The page holds one issue, whose detail arrived with subtask references
OneIssueWithSubtasks ==
    /\ as_data # Absent /\ Len(PageIssues(as_data)) = 1
    /\ Len(as_answers) >= 2 /\ as_answers[2] = "ok"

\* C16: a failed subtask fetch never fails the call; the result holds every
\* issue whose detail was fetched, each with the subtasks whose fetch
\* succeeded, in order, the failed ones left out; for a one-issue page every
\* reference with a key is requested whatever the earlier fetches gave.
C16_FailedSubtaskOmitted ==
    /\ as_pc = "raised" => Len(as_answers) = 1
    /\ (as_pc = "returned" /\ as_data # EmptyPage) => ResultKeys = KeptIssues
    /\ (as_pc = "returned" /\ OneIssueWithSubtasks) =>
         as_requests =
            <<SearchRequest(AssigneeJql(assignee_email), as_max_results, as_start_at),
              IssueRequest(PageIssues(as_data)[1].key.s)>>
            \o [j \in 1..Len(WithKey(as_issue_data.fields.subtasks)) |->
                  IssueRequest(WithKey(as_issue_data.fields.subtasks)[j])]

C16_Witness ==
    /\ as_pc = "returned"
    /\ OneIssueWithSubtasks
    /\ Len(as_requests) = 4
    /\ as_answers = <<"ok", "ok", "HTTPStatusError", "ok">>
    /\ ResultKeys = <<[key |-> <<"I", "1">>, subtasks |-> << <<"S", "2">> >>]>>

IsPageKeyRequest(r) == r.kind = "issue" /\ r.key \in PageKeys

-----------------------------------------------------------------------------
(* What the claims about get_jira_issue_confluence_content and about the    *)
(* first fetch of the aggregating tools say.                                *)

\* The links that pass the Confluence filter, in link order
KeptLinks == SelectSeq(links_data, IsConfluenceLink)

HasNoPageId(link) == extract_page_id(UrlOf(link)) = PyNone
HasPageId(link) == ~HasNoPageId(link)
IsPageRequest(r) == r.kind = "page"

\* C20: in a returned run every kept link whose URL holds no page id has
\* exactly one entry in confluence_pages, with an error string and without
\* page_id and content fields; the entry is counted in confluence_pages_count
\* and the page requests sent are those of the kept links that hold a page id.
C20_NoPageIdEntry ==
    cf_pc = "returned" =>
        LET pages == cf_result.doc.confluence_pages IN
        /\ cf_result.doc.confluence_pages_count = Len(pages)
        /\ Len(pages) = Len(KeptLinks)
        /\ \A j \in 1..Len(KeptLinks) :
             HasNoPageId(KeptLinks[j]) =>
                /\ j <= Len(pages)
                /\ pages[j].link_id = KeptLinks[j].id
                /\ Cardinality({k \in 1..Len(pages) : pages[k].link_id = KeptLinks[j].id}) = 1
                /\ "error" \in DOMAIN pages[j]
                /\ DOMAIN pages[j] \cap {"page_id", "content_html", "content_storage"} = {}
        /\ LET fetched == SelectSeq(KeptLinks, HasPageId) IN
           SelectSeq(cf_requests, IsPageRequest) =
              [j \in 1..Len(fetched) |-> PageRequest(extract_page_id(UrlOf(fetched[j])).s)]

C20_Witness ==
    /\ cf_pc = "returned"
    /\ Len(links_data) = 2
    /\ IsConfluenceLink(links_data[1]) /\ HasNoPageId(links_data[1])
    /\ IsConfluenceLink(links_data[2]) /\ HasPageId(links_data[2])
    /\ cf_result.doc.confluence_pages_count = 2
    /\ Len(cf_requests) = 3

\* The first answer of a call is a failure
FirstFailed(answers) == answers # <<>> /\ answers[1] # "ok"

\* The call failed with error e after the requests reqs and nothing else
FailedWith(pc, result, in_flight, requests, e, reqs) ==
    /\ pc = "raised"
    /\ result = [status |-> "raised", error |-> e]
    /\ in_flight = {}
    /\ requests = reqs

\* C15: when the first fetch of an aggregating tool fails (the issue, the
\* epic, the issue or its remote links, the board list), the call fails with
\* that error, without result document, and that request is the last one sent.
C15_FirstFetchFailureFailsCall ==
    /\ FirstFailed(ji_answers) =>
         FailedWith(ji_pc, ji_result, ji_in_flight, ji_requests, ji_answers[1],
                    <<IssueRequest(ji_issue_key)>>)
    /\ FirstFailed(ep_answers) =>
         FailedWith(ep_pc, ep_result, ep_in_flight, ep_requests, ep_answers[1],
                    <<EpicRequest(epic_key)>>)
    /\ FirstFailed(cf_answers) =>
         FailedWith(cf_pc, cf_result, cf_in_flight, cf_requests, cf_answers[1],
                    <<IssueRequest(cf_issue_key)>>)
    /\ (Len(cf_answers) >= 2 /\ cf_answers[2] # "ok") =>
         FailedWith(cf_pc, cf_result, cf_in_flight, cf_requests, cf_answers[2],
                    <<IssueRequest(cf_issue_key), RemoteLinksRequest(cf_issue_key)>>)
    /\ sp_tool = "get" =>
         /\ Len(sp_requests) >= 2 => boards_data # <<>>
         /\ (sp_pc = "raised" /\ boards_data = <<>>) =>
              /\ sp_result.status = "raised" /\ sp_result.error \in Failures
              /\ sp_in_flight = {}
              /\ sp_requests = <<BoardsRequest>>

C15_Witness ==
    /\ cf_pc = "raised"
    /\ cf_answers = <<"ok", "HTTPStatusError">>
    /\ Len(cf_requests) = 2
    /\ cf_result.error = "HTTPStatusError"

\* The place, among the page requests, of the request for the j-th kept link
FetchRank(j) == Len(SelectSeq(SubSeq(KeptLinks, 1, j), HasPageId))

\* The fetch of the page of the j-th kept link was answered with a failure
PageFetchFailed(j) ==
    /\ HasPageId(KeptLinks[j])
    /\ 2 + FetchRank(j) <= Len(cf_answers)
    /\ cf_answers[2 + FetchRank(j)] # "ok"

\* C21: once the remote links arrived the call never fails; in a returned
\* run every kept link has its entry, every kept link with a page id was
\* requested, and each link whose page fetch failed has one entry with its
\* page_id, the title of the link and an error string, without content
\* fields, however many fetches failed.
C21_BadLinkDoesNotAbort ==
    /\ (Len(cf_answers) >= 2 /\ cf_answers[1] = "ok" /\ cf_answers[2] = "ok") => cf_pc # "raised"
    /\ cf_pc = "returned" =>
         LET pages == cf_result.doc.confluence_pages IN
         /\ Len(pages) = Len(KeptLinks)
         /\ Len(cf_requests) = 2 + Len(SelectSeq(KeptLinks, HasPageId))
         /\ Len(cf_answers) = Len(cf_requests)
         /\ \A j \in 1..Len(KeptLinks) :
              PageFetchFailed(j) =>
                 /\ pages[j].link_id = KeptLinks[j].id
                 /\ "page_id" \in DOMAIN pages[j]
                 /\ pages[j].page_id = extract_page_id(UrlOf(KeptLinks[j]))
                 /\ pages[j].title = TitleOf(KeptLinks[j])
                 /\ "error" \in DOMAIN pages[j]
                 /\ pages[j].error = <<"Failed to fetch content: ", cf_answers[2 + FetchRank(j)]>>
                 /\ DOMAIN pages[j] \cap {"content_html", "content_storage", "space"} = {}

C21_Witness ==
    /\ cf_pc = "returned"
    /\ Len(cf_answers) = 4
    /\ cf_answers[3] # "ok" /\ cf_answers[4] # "ok"
    /\ Len(cf_result.doc.confluence_pages) = 2
    /\ \A j \in 1..2 : "error" \in DOMAIN cf_result.doc.confluence_pages[j]

\* The URLs of the model by the patterns they hold
ParamOnly == <<"/", "w", "i", "k", "i", "/", "x", "?", "p", "a", "g", "e", "I", "d", "=", "1", "2">>
PathOnly == <<"/", "w", "i", "k", "i", "/", "s", "p", "a", "c", "e", "s", "/", "S", "/", "p", "a", "g", "e", "s", "/", "3", "4", "/", "t">>
PathAndParam == <<"/", "w", "i", "k", "i", "/", "s", "p", "a", "c", "e", "s", "/", "S", "/", "p", "a", "g", "e", "s", "/", "3", "4", "?", "a", "=", "1", "&", "p", "a", "g", "e", "I", "d", "=", "1", "2">>
NeitherPattern == <<"/", "w", "i", "k", "i", "/", "x">>

\* The page id the patterns give, parameter first: digits, or <<>> for none
ExpectedPageId(u) ==
    IF u \in {ParamOnly, PathAndParam} THEN <<"1", "2">>
    ELSE IF u = PathOnly THEN <<"3", "4">>
    ELSE <<>>

\* C22: in a returned run the entry of a kept link carries the digits of the
\* parameter pattern when the URL holds it (also when it holds the path
\* pattern too), the digits of the path pattern when it holds only that one,
\* and no page_id when it holds neither.
C22_ParamPatternFirst ==
    cf_pc = "returned" =>
        LET pages == cf_result.doc.confluence_pages IN
        \A j \in 1..Len(KeptLinks) :
           LET u == UrlOf(KeptLinks[j]) IN
           u \in {ParamOnly, PathOnly, PathAndParam, NeitherPattern} =>
              /\ j <= Len(pages)
              /\ IF ExpectedPageId(u) = <<>>
                   THEN "page_id" \notin DOMAIN pages[j]
                   ELSE /\ "page_id" \in DOMAIN pages[j]
                        /\ pages[j].page_id = PyStr(ExpectedPageId(u))
                        /\ \E n \in 1..Len(cf_requests) :
                              cf_requests[n] = PageRequest(ExpectedPageId(u))

C22_Witness ==
    /\ cf_pc = "returned"
    /\ Len(links_data) = 2
    /\ UrlOf(links_data[1]) = PathAndParam
    /\ UrlOf(links_data[2]) = PathOnly
    /\ cf_requests[3] = PageRequest(<<"1", "2">>)
    /\ cf_requests[4] = PageRequest(<<"3", "4">>)

\* s holds the word confluence, whatever the case of its letters
HoldsConfluence(s) ==
    LET word == <<"c", "o", "n", "f", "l", "u", "e", "n", "c", "e">>
        caps == <<"C", "O", "N", "F", "L", "U", "E", "N", "C", "E">>
    IN  \E i \in 1..Len(s) :
           /\ i + 9 <= Len(s)
           /\ \A k \in 1..10 : s[i + k - 1] \in {word[k], caps[k]}

\* s holds the path segment /wiki/
HoldsWikiSegment(s) ==
    \E i \in 1..Len(s) :
       /\ i + 5 <= Len(s)
       /\ <<s[i], s[i + 1], s[i + 2], s[i + 3], s[i + 4], s[i + 5]>> = <<"/", "w", "i", "k", "i", "/">>

ToBeKept(link) ==
    link.object.url # Absent /\ (HoldsWikiSegment(link.object.url.s) \/ HoldsConfluence(link.object.url.s))

\* C23: in a returned run the entries of confluence_pages are, in link order,
\* one per link whose URL holds /wiki/ or the word confluence in any case; a
\* link that is not kept has no entry, and no page is requested for it.
C23_KeptIffConfluenceUrl ==
    /\ \A i \in 1..Len(links_data) : IsConfluenceLink(links_data[i]) <=> ToBeKept(links_data[i])
    /\ cf_pc = "returned" =>
         LET pages == cf_result.doc.confluence_pages
             kept == SelectSeq(links_data, ToBeKept)
         IN  /\ [j \in 1..Len(pages) |-> pages[j].link_id] = [j \in 1..Len(kept) |-> kept[j].id]
             /\ [j \in 1..Len(pages) |-> pages[j].url] = [j \in 1..Len(kept) |-> kept[j].object.url.s]
             /\ Len(SelectSeq(cf_requests, IsPageRequest)) = Len(SelectSeq(kept, HasPageId))

C23_Witness ==
    /\ cf_pc = "returned"
    /\ Len(links_data) = 2
    /\ ~ToBeKept(links_data[1])
    /\ links_data[1].object.url # Absent
    /\ ToBeKept(links_data[2]) /\ ~HoldsWikiSegment(links_data[2].object.url.s)
    /\ cf_result.doc.confluence_pages_count = 1

IsSprintsRequest(r) == r.kind = "sprints"

\* A sprint-list request was sent, is no longer in flight, and no list came
\* for it: it failed
SprintListFailed ==
    /\ sp_in_flight = {}
    /\ Len(SelectSeq(sp_requests, IsSprintsRequest)) = Len(sp_seen) + 1

\* C27: after a failed sprint-list request the call is failed with the error
\* of a request, holds no result document, and the failed request is the last
\* one sent: no later state or board is asked for, and no issues.
C27_SprintListFailureFailsCall ==
    SprintListFailed =>
        /\ sp_pc = "raised"
        /\ sp_result.status = "raised"
        /\ sp_result.error \in Failures
        /\ DOMAIN sp_result = {"status", "error"}
        /\ IsSprintsRequest(sp_requests[Len(sp_requests)])
        /\ ~MatchSeen

C27_Witness ==
    /\ sp_tool = "get"
    /\ SprintListFailed
    /\ sp_pc = "raised"
    /\ Len(boards_data) = MaxBoards
    /\ Len(sp_seen) = 1
    /\ Len(sp_requests) = 3

\* The page of a search holds no issue
NoIssues(page) == page.issues = Absent \/ page.issues.v = <<>>

\* C26: a third request (the search by id) is sent only after the search by
\* key was answered with a failure; when the search by key is answered with a
\* page without issues the call ends there, after two requests, and a result
\* that is returned reports zero issues.
C26_FallbackOnlyOnFailure ==
    /\ Len(ep_requests) >= 3 => (Len(ep_answers) >= 2 /\ ep_answers[2] # "ok")
    /\ (Len(ep_answers) >= 2 /\ ep_answers[2] = "ok" /\ NoIssues(ep_issues_data)) =>
         /\ ep_pc \in {"returned", "raised"}
         /\ Len(ep_requests) = 2
         /\ ep_in_flight = {}
         /\ ep_pc = "returned" =>
              /\ ep_result.doc.returned_issues = 0
              /\ ep_result.doc.issues = <<>>

C26_Witness ==
    /\ ep_pc = "returned"
    /\ ep_answers = <<"ok", "ok">>
    /\ ep_issues_data = [total |-> PyInt(0), issues |-> PyList(<<>>)]
    /\ ep_result.doc.returned_issues = 0
    /\ Len(ep_requests) = 2

-----------------------------------------------------------------------------
(* What the claims about the requests of a call say.                        *)

\* Of the requests sent, `answered` have been answered, and the one that is
\* not is the last one sent and the only one in flight
Sequential(in_flight, requests, answered) ==
    /\ Cardinality(in_flight) <= 1
    /\ Len(requests) = answered + Cardinality(in_flight)
    /\ in_flight # {} => in_flight = {requests[Len(requests)]}

\* C24: a call has at most one request in flight, which is the last one it
\* sent, and every request before it has been answered: a subtask fetch, a
\* sprint-list fetch or a page fetch is sent only once the request before it
\* got its response or failure.
C24_SequentialFanOut ==
    /\ Sequential(ji_in_flight, ji_requests, Len(ji_answers))
    /\ Sequential(cf_in_flight, cf_requests, Len(cf_answers))
    /\ Sequential(ep_in_flight, ep_requests, Len(ep_answers))
    /\ Cardinality(sp_in_flight) <= 1
    /\ sp_in_flight # {} => sp_in_flight = {sp_requests[Len(sp_requests)]}
    /\ sp_pc # "raised" =>
         Len(SelectSeq(sp_requests, IsSprintsRequest))
            = Len(sp_seen) + Cardinality({r \in sp_in_flight : IsSprintsRequest(r)})

C24_Witness ==
    /\ ji_pc = "await_subtask"
    /\ Len(ji_requests) = 3
    /\ Len(ji_answers) = 2
    /\ ji_in_flight = {ji_requests[3]}

\* The requests a call may send: 1 + 3*B + 1 for get_sprint_issues_by_name
\* over B boards, 3 for find_sprint_ID_by_name and get_epic_issues, 1 + S for
\* get_jira_issue over S subtask references, 2 + L for the Confluence tool
\* over L remote links
RequestsWithinBounds ==
    /\ sp_tool = "get" => Len(sp_requests) <= 1 + 3 * Len(boards_data) + 1
    /\ sp_tool = "find" => Len(sp_requests) <= 3
    /\ Len(ep_requests) <= 3
    /\ Len(ji_requests) <= 1 + (IF ji_issue_data = Absent THEN 0
                                ELSE Len(ji_issue_data.fields.subtasks))
    /\ Len(cf_requests) <= 2 + Len(links_data)

\* The call of the run has returned or failed
CallEnded ==
    /\ sp_pc \in {"rest", "returned", "raised"}
    /\ ep_pc \in {"rest", "returned", "raised"}
    /\ ji_pc \in {"rest", "returned", "raised"}
    /\ cf_pc \in {"rest", "returned", "raised"}

\* A call that has not ended has not started yet or awaits the answer to a
\* request: its next step needs nothing but that answer
AwaitsAnAnswer ==
    \/ "idle" \in {sp_pc, ep_pc, ji_pc, cf_pc}
    \/ sp_in_flight \cup ep_in_flight \cup ji_in_flight \cup cf_in_flight # {}

\* What a call has got through: the requests it sent, and its end
Progress ==
    Len(sp_requests) + Len(ep_requests) + Len(ji_requests) + Len(cf_requests)
      + (IF CallEnded THEN 1 ELSE 0)

\* C29: at no time has a call sent more requests than its bound; a call that
\* has not ended awaits an answer, and every step it takes sends one more
\* request or ends it: when every request is answered the call ends after at
\* most that many requests.
C29_BoundedTermination ==
    /\ [](RequestsWithinBounds /\ (CallEnded \/ AwaitsAnAnswer))
    /\ [][Progress' = Progress + 1 /\ ~CallEnded]_vars

C29_Witness ==
    /\ sp_tool = "get" /\ sp_pc = "returned"
    /\ Len(boards_data) = MaxBoards
    /\ Len(sp_requests) = 1 + 3 * MaxBoards + 1

-----------------------------------------------------------------------------
(* What the claim about calls at the same time says.                        *)

\* Call c run alone on the answers resps, from the i-th on: its locals and
\* its lists at the end
RECURSIVE Alone(_, _, _)
Alone(at, resps, i) ==
    IF i > Len(resps) THEN at
    ELSE Alone(PairResume(at.local,
                          [formatted_issues |-> at.formatted_issues,
                           subtasks_payload |-> at.subtasks_payload],
                          resps[i]),
               resps, i + 1)

RunAlone(c, resps) ==
    Alone([local |-> PairStart(NewCall(c, PairEmail(c))),
           formatted_issues |-> <<>>, subtasks_payload |-> <<>>], resps, 1)

\* The keys the upstream gave call c
KeysOf(c) == {PyStr(PairKey(c, i)) : i \in 1..4} \cup {PyStr(PairSubKey(c))}

\* C25: whatever the interleaving of two calls, each call is where it would
\* be had it run alone on the answers it received (its locals, its result and
\* its lists), and its lists and its result hold nothing that was made from
\* an answer to the other call.
C25_CallsShareNothing ==
    \A c \in Callers :
       pr_calls[c].pc \notin {"rest", "idle"} =>
          /\ [local |-> pr_calls[c],
              formatted_issues |-> pr_lists[c].formatted_issues,
              subtasks_payload |-> pr_lists[c].subtasks_payload]
                = RunAlone(c, pr_responses[c])
          /\ \A i \in 1..Len(pr_lists[c].formatted_issues) :
                LET issue == pr_lists[c].formatted_issues[i] IN
                /\ issue.key \in KeysOf(c)
                /\ \A j \in 1..Len(issue.subtasks) : issue.subtasks[j].key \in KeysOf(c)
                /\ \A j \in 1..Len(issue.comments) :
                      issue.comments[j].author = PyStr(PairEmail(c))
          /\ \A j \in 1..Len(pr_lists[c].subtasks_payload) :
                pr_lists[c].subtasks_payload[j].key \in KeysOf(c)
          /\ (pr_calls[c].pc = "returned" /\ pr_calls[c].result # NoData) =>
                pr_calls[c].result.doc.issues = pr_lists[c].formatted_issues

\* Both calls are suspended in the middle of their second issue, each on
\* the request for a subtask, and each has formatted its first issue with a
\* subtask of its own
C25_Witness ==
    \A c \in Callers :
       /\ pr_calls[c].pc = "await_subtask"
       /\ pr_calls[c].issue_idx = 2
       /\ Len(pr_lists[c].formatted_issues) = 1
       /\ Len(pr_lists[c].formatted_issues[1].subtasks) = 1

-----------------------------------------------------------------------------
(* The specifications: each tool is run from its own initial states, the    *)
(* state of the others at rest.                                             *)

AdfAtRest ==
    /\ adf_pc = "rest"
    /\ adf_content = PyNone
    /\ adf_result = NoOutcome
    /\ adf_second = NoOutcome

SprintAtRest ==
    /\ sp_tool = "none"
    /\ sp_pc = "rest"
    /\ sprint_name = <<>>
    /\ board_id = 0
    /\ sp_max_results = 0
    /\ boards_data = <<>>
    /\ board_idx = 0
    /\ state_idx = 0
    /\ sprints_data = <<>>
    /\ sprint = Absent
    /\ sp_in_flight = {}
    /\ sp_requests = <<>>
    /\ sp_seen = <<>>
    /\ sp_result = NoResult

EpicAtRest ==
    /\ ep_pc = "rest"
    /\ epic_key = <<>>
    /\ ep_max_results = 0
    /\ start_at = 0
    /\ epic_data = Absent
    /\ ep_issues_data = Absent
    /\ ep_in_flight = {}
    /\ ep_requests = <<>>
    /\ ep_answers = <<>>
    /\ ep_result = NoResult

JiraAtRest ==
    /\ ji_pc = "rest"
    /\ ji_issue_key = <<>>
    /\ ji_issue_data = Absent
    /\ ji_sub_idx = 0
    /\ ji_subtasks_payload = <<>>
    /\ ji_in_flight = {}
    /\ ji_requests = <<>>
    /\ ji_answers = <<>>
    /\ ji_result = NoResult

AssigneeAtRest ==
    /\ as_pc = "rest"
    /\ assignee_email = <<>>
    /\ as_max_results = 0
    /\ as_start_at = 0
    /\ as_data = Absent
    /\ as_issue_idx = 0
    /\ as_issue_data = Absent
    /\ as_sub_idx = 0
    /\ as_subtasks_payload = <<>>
    /\ formatted_issues = <<>>
    /\ as_in_flight = {}
    /\ as_requests = <<>>
    /\ as_answers = <<>>
    /\ as_result = NoResult

ConfluenceAtRest ==
    /\ cf_pc = "rest"
    /\ cf_issue_key = <<>>
    /\ cf_issue_data = Absent
    /\ links_data = <<>>
    /\ cf_link_idx = 0
    /\ confluence_pages = <<>>
    /\ cf_in_flight = {}
    /\ cf_requests = <<>>
    /\ cf_answers = <<>>
    /\ cf_result = NoResult

PairAtRest ==
    /\ pr_calls = [c \in Callers |-> [pc |-> "rest"]]
    /\ pr_lists = [c \in Callers |-> NoLists]
    /\ pr_responses = [c \in Callers |-> <<>>]

InitOfAdf ==
    InitAdf /\ SprintAtRest /\ EpicAtRest /\ JiraAtRest /\ AssigneeAtRest /\ ConfluenceAtRest /\ PairAtRest
SpecAdf == InitOfAdf /\ [][NextAdf]_vars

InitOfSprint ==
    AdfAtRest /\ InitSprint /\ EpicAtRest /\ JiraAtRest /\ AssigneeAtRest /\ ConfluenceAtRest /\ PairAtRest
SpecSprint == InitOfSprint /\ [][NextSprint]_vars

InitOfEpic ==
    AdfAtRest /\ SprintAtRest /\ InitEpic /\ JiraAtRest /\ AssigneeAtRest /\ ConfluenceAtRest /\ PairAtRest
SpecEpic == InitOfEpic /\ [][NextEpic]_vars

InitOfJira ==
    AdfAtRest /\ SprintAtRest /\ EpicAtRest /\ InitJira /\ AssigneeAtRest /\ ConfluenceAtRest /\ PairAtRest
SpecJira == InitOfJira /\ [][NextJira]_vars

InitOfAssignee ==
    AdfAtRest /\ SprintAtRest /\ EpicAtRest /\ JiraAtRest /\ InitAssignee /\ ConfluenceAtRest /\ PairAtRest
SpecAssignee == InitOfAssignee /\ [][NextAssignee]_vars

InitOfConfluence ==
    AdfAtRest /\ SprintAtRest /\ EpicAtRest /\ JiraAtRest /\ AssigneeAtRest /\ InitConfluence /\ PairAtRest
SpecConfluence == InitOfConfluence /\ [][NextConfluence]_vars

\* One call of one of the four tools that aggregate over a first fetch:
\* the sprint lookup, get_epic_issues, get_jira_issue and the Confluence tool
InitOfTools ==
    \/ AdfAtRest /\ InitSprint /\ EpicAtRest /\ JiraAtRest /\ AssigneeAtRest /\ ConfluenceAtRest /\ PairAtRest
    \/ AdfAtRest /\ SprintAtRest /\ InitEpic /\ JiraAtRest /\ AssigneeAtRest /\ ConfluenceAtRest /\ PairAtRest
    \/ AdfAtRest /\ SprintAtRest /\ EpicAtRest /\ InitJira /\ AssigneeAtRest /\ ConfluenceAtRest /\ PairAtRest
    \/ AdfAtRest /\ SprintAtRest /\ EpicAtRest /\ JiraAtRest /\ AssigneeAtRest /\ InitConfluence /\ PairAtRest
NextTools == NextSprint \/ NextEpic \/ NextJira \/ NextConfluence
SpecTools == InitOfTools /\ [][NextTools]_vars

\* Two calls of get_issues_by_assignee, interleaved at their awaits
InitOfPair ==
    AdfAtRest /\ SprintAtRest /\ EpicAtRest /\ JiraAtRest /\ AssigneeAtRest /\ ConfluenceAtRest /\ InitPair
SpecPair == InitOfPair /\ [][NextPair]_vars

=============================================================================
